---- MODULE Spec2Model ----
(***************************************************************************)
(* A model of the python backend of game-builder: the asset pipeline of    *)
(* asset_manager.py (AssetManager) and the simulation of game_engine.py    *)
(* (PygameGameEngine).                                                     *)
(***************************************************************************)
EXTENDS Integers, Sequences, FiniteSets, TLC

(***************************************************************************)
(* config.example.py                                                       *)
(***************************************************************************)
MAX_DALLE_REQUESTS_PER_GAME == 5
SPRITE_SIZE == 32
BACKGROUND_SIZE == <<800, 600>>
GAME_WIDTH == 800
GAME_HEIGHT == 600
FPS == 60
GRAVITY == 981
JUMP_FORCE == -500
MOVE_SPEED == 200

(***************************************************************************)
(* Bounds of the model.                                                    *)
(***************************************************************************)
MaxEntities == 2
MaxLevels == 2

(***************************************************************************)
(* Game descriptions (main.py GameData): entity and level descriptors.     *)
(* A descriptor is a record that holds the keys its JSON object holds;     *)
(* Get is dict.get.                                                        *)
(***************************************************************************)
Get(d, key, default) == IF key \in DOMAIN d THEN d[key] ELSE default

EntityDescriptors ==
    { [name |-> "hero",     type |-> "player", color |-> "#FF0000"],
      [name |-> "enemy_1",  type |-> "enemy",  color |-> "#00FF00"],
      [name |-> "BigEnemy", type |-> "object", color |-> "#0000FF"],
      [name |-> "coin",     type |-> "object"] }

\* A level holds platform rectangles and collectible descriptors (pixels).
Platform1 == [x |-> 0,   y |-> 500, width |-> 200, height |-> 20]
Platform2 == [x |-> 300, y |-> 450, width |-> 100, height |-> 20]
Collectible1 == [x |-> 110, y |-> 410, width |-> 20, height |-> 20, points |-> 10]

EmptyLevel == [platforms |-> <<>>, collectibles |-> <<>>]
FullLevel == [platforms |-> <<Platform1, Platform2>>, collectibles |-> <<Collectible1>>]
PlatformLevel == [platforms |-> <<Platform1>>, collectibles |-> <<>>]

LevelDescriptors == {EmptyLevel, FullLevel, PlatformLevel}

SeqsUpTo(S, n) == UNION {[1..k -> S] : k \in 0..n}

GameDescriptions ==
    [gameType : {"platformer"}, theme : {"fantasy"}, artStyle : {"pixel"},
     entities : SeqsUpTo(EntityDescriptors, MaxEntities),
     levels : SeqsUpTo(LevelDescriptors, MaxLevels)]

(***************************************************************************)
(* Strings: the characters of the strings the model tests, str.lower and   *)
(* the `in` substring test of python.                                      *)
(***************************************************************************)
StrChars(str) ==
    CASE str = "hero"     -> <<"h", "e", "r", "o">>
      [] str = "hero2"    -> <<"h", "e", "r", "o", "2">>
      [] str = "platform_0" -> <<"p", "l", "a", "t", "f", "o", "r", "m", "_", "0">>
      [] str = "enemy_1"  -> <<"e", "n", "e", "m", "y", "_", "1">>
      [] str = "BigEnemy" -> <<"B", "i", "g", "E", "n", "e", "m", "y">>
      [] str = "coin"     -> <<"c", "o", "i", "n">>
      [] str = "player"   -> <<"p", "l", "a", "y", "e", "r">>
      [] str = "enemy"    -> <<"e", "n", "e", "m", "y">>
      [] str = "object"   -> <<"o", "b", "j", "e", "c", "t">>
      [] str = "#FF0000"  -> <<"#", "F", "F", "0", "0", "0", "0">>
      [] str = "#00FF00"  -> <<"#", "0", "0", "F", "F", "0", "0">>
      [] str = "#0000FF"  -> <<"#", "0", "0", "0", "0", "F", "F">>
      [] str = "#FFFFFF"  -> <<"#", "F", "F", "F", "F", "F", "F">>
      [] str = "#8B4513"  -> <<"#", "8", "B", "4", "5", "1", "3">>
      [] str = "gold"     -> <<"g", "o", "l", "d">>
      [] OTHER            -> <<>>

LowerChar(c) ==
    CASE c = "B" -> "b"
      [] c = "E" -> "e"
      [] c = "F" -> "f"
      [] OTHER   -> c

lower(s) == [i \in 1..Len(s) |-> LowerChar(s[i])]

Contains(needle, s) ==
    \E i \in 1..(Len(s) - Len(needle) + 1) :
        SubSeq(s, i, i + Len(needle) - 1) = needle

\* 'enemy' in str.lower()
HasEnemy(str) == Contains(<<"e", "n", "e", "m", "y">>, lower(StrChars(str)))

(***************************************************************************)
(* Prompt composer and cache key.  md5 is taken to be free of collisions.  *)
(***************************************************************************)
_create_player_prompt(entity, gd) ==
    LET base_prompt == gd.artStyle \o " art style, " \o gd.theme \o " theme, mobile game sprite"
    IN  CASE gd.gameType = "racing" ->
               base_prompt \o ", top-down racing car, sleek design, bright colors, Formula 1 style, detailed wheels, transparent background, 32x32 pixels"
          [] gd.gameType = "flappy" ->
               base_prompt \o ", cute flying bird character, colorful feathers, expressive eyes, wings spread, cartoon style, transparent background, 32x32 pixels"
          [] gd.gameType = "shooter" ->
               base_prompt \o ", futuristic spaceship, detailed hull, engine thrusters, sci-fi design, metallic finish, transparent background, 32x32 pixels"
          [] OTHER ->
               base_prompt \o ", heroic character, detailed armor, determined expression, action pose, RPG quality, transparent background, 32x32 pixels"

_create_background_prompt(level, gd) ==
    LET base_prompt == gd.artStyle \o " art style, " \o gd.theme \o " theme, mobile game background"
    IN  CASE gd.gameType = "racing" ->
               base_prompt \o ", professional racing track, asphalt surface, white lane markings, grandstands, aerial view, detailed track, 800x600 resolution"
          [] gd.gameType = "flappy" ->
               base_prompt \o ", beautiful sky environment, fluffy clouds, gradient blue sky, distant mountains, parallax layers, bright atmosphere, 800x600 resolution"
          [] gd.gameType = "shooter" ->
               base_prompt \o ", deep space environment, star field, nebulae, cosmic dust, sci-fi atmosphere, 800x600 resolution"
          [] OTHER ->
               base_prompt \o ", detailed platformer environment, lush forest, rocky platforms, atmospheric lighting, adventure game quality, 800x600 resolution"

_create_enemy_prompt(entity, gd) ==
    gd.artStyle \o " art style, " \o gd.theme \o " theme, enemy creature, menacing appearance, detailed features, hostile design, video game quality, transparent background, 32x32 pixels"

_create_collectible_prompt(collectible, gd) ==
    gd.artStyle \o " art style, " \o gd.theme \o " theme, collectible item, shiny treasure, magical glow, valuable object, game pickup, transparent background, 24x24 pixels"

_create_platform_prompt(platform, gd) ==
    gd.artStyle \o " art style, " \o gd.theme \o " theme, platform texture, tileable surface, detailed texture, game environment, seamless tile, 64x32 pixels"

md5(content) == "md5(" \o content \o ")"

get_cache_key(prompt, asset_type) ==
    md5(prompt \o "_" \o asset_type \o "_" \o ToString(SPRITE_SIZE))

(***************************************************************************)
(* Paths of the cache directory; None is python's None.                    *)
(***************************************************************************)
None == "None"
ASSET_CACHE_DIR == "cached_assets"
CachedPath(cache_key) == ASSET_CACHE_DIR \o "/" \o cache_key \o ".png"
FallbackPath(name, color) ==
    ASSET_CACHE_DIR \o "/" \o "fallback_" \o name \o "_" \o color \o ".png"

(***************************************************************************)
(* AssetManager._identify_priority_assets                                  *)
(***************************************************************************)
RECURSIVE FirstPlayer(_)
FirstPlayer(entities) ==
    IF entities = <<>> THEN <<>>
    ELSE IF Get(Head(entities), "type", None) = "player" THEN <<Head(entities)>>
    ELSE FirstPlayer(Tail(entities))

RECURSIVE ExtendAll(_, _)
ExtendAll(levels, field) ==
    IF levels = <<>> THEN <<>>
    ELSE Get(Head(levels), field, <<>>) \o ExtendAll(Tail(levels), field)

\* A faulty choice within a category: the last declared instead of the first.
TakeLast(list) == list[Len(list)]

\* enemies[0], collectibles[0], platforms[0]
TakeFirst(list) == list[1]

HasEnemyName(e) == HasEnemy(Get(e, "name", ""))

PriorityList(gd) ==
    LET player_entity == FirstPlayer(gd.entities)
        enemies == SelectSeq(gd.entities, HasEnemyName)
        collectibles == ExtendAll(gd.levels, "collectibles")
        platforms == ExtendAll(gd.levels, "platforms")
    IN  (IF player_entity # <<>>
         THEN <<[name |-> player_entity[1].name, type |-> "character",
                 prompt |-> _create_player_prompt(player_entity[1], gd),
                 size |-> <<SPRITE_SIZE, SPRITE_SIZE>>]>>
         ELSE <<>>)
        \o
        (IF Len(gd.levels) > 0
         THEN <<[name |-> "background", type |-> "background",
                 prompt |-> _create_background_prompt(gd.levels[1], gd),
                 size |-> BACKGROUND_SIZE]>>
         ELSE <<>>)
        \o
        (IF enemies # <<>>
         THEN <<[name |-> TakeFirst(enemies).name, type |-> "character",
                 prompt |-> _create_enemy_prompt(TakeFirst(enemies), gd),
                 size |-> <<SPRITE_SIZE, SPRITE_SIZE>>]>>
         ELSE <<>>)
        \o
        (IF collectibles # <<>>
         THEN <<[name |-> "collectible", type |-> "item",
                 prompt |-> _create_collectible_prompt(TakeFirst(collectibles), gd),
                 size |-> <<24, 24>>]>>
         ELSE <<>>)
        \o
        (IF platforms # <<>>
         THEN <<[name |-> "platform", type |-> "tile",
                 prompt |-> _create_platform_prompt(TakeFirst(platforms), gd),
                 size |-> <<64, 32>>]>>
         ELSE <<>>)

\* A faulty truncation: one candidate fewer than the budget allows.
TruncatedShort(gd) ==
    LET ranked == PriorityList(gd)
    IN  SubSeq(ranked, 1,
               IF Len(ranked) < MAX_DALLE_REQUESTS_PER_GAME - 1
               THEN Len(ranked) ELSE MAX_DALLE_REQUESTS_PER_GAME - 1)

_identify_priority_assets(gd) ==
    LET ranked == PriorityList(gd)
    IN  SubSeq(ranked, 1,
               IF Len(ranked) < MAX_DALLE_REQUESTS_PER_GAME
               THEN Len(ranked) ELSE MAX_DALLE_REQUESTS_PER_GAME)

(***************************************************************************)
(* State.                                                                  *)
(*   asset manager: asset_cache (the in-memory index), disk_index          *)
(*   (asset_cache.json), files (the files of the cache directory),         *)
(*   dalle_request_count; one invocation of generate_game_assets:          *)
(*   game_data, assets, priority_requests, am_idx (position of the loop    *)
(*   over priority_requests), am_pc, requests_sent (the requests posted to *)
(*   the image provider, in order: the asset each was for and whether it   *)
(*   ended in a stored image), am_log (the last                            *)
(*   line printed by _generate_dalle_asset; detail is the exception the    *)
(*   line reports) and disk_faulty (whether reads and writes of the cache  *)
(*   directory can fail).  am_pc is "constructing" inside __init__,        *)
(*   "load_failed" when __init__ raised, "idle", "generate", "returned",   *)
(*   or "raised" when generate_game_assets raised.                         *)
(***************************************************************************)
VARIABLES asset_cache, disk_index, files, dalle_request_count,
          game_data, assets, priority_requests, am_idx, am_pc,
          requests_sent, am_log, disk_faulty

am_vars == <<asset_cache, disk_index, files, dalle_request_count,
             game_data, assets, priority_requests, am_idx, am_pc,
             requests_sent, am_log, disk_faulty>>

(***************************************************************************)
(* State of main.py and of the engine (PygameGameEngine):                  *)
(*   game_engine: "none" (the global is None), "created" (constructed,     *)
(*   initialize_game not completed) or "initialized"; game_running;        *)
(*   the engine's fields game_type, eng_assets (names of the loaded        *)
(*   surfaces), background, player, enemies, collectibles, platforms,      *)
(*   all_objects (handles of the objects of the typed holders, in order),  *)
(*   body (the pymunk body of the player), game_state, camera, keys_pressed*)
(*   and screen (what the last render drew); frames counts the update      *)
(*   calls, to bound the model.                                            *)
(***************************************************************************)
VARIABLES game_engine, game_running, game_type, eng_assets, background,
          player, enemies, collectibles, platforms, all_objects, body,
          game_state, camera, keys_pressed, screen, frames

eng_vars == <<game_engine, game_running, game_type, eng_assets, background,
              player, enemies, collectibles, platforms, all_objects, body,
              game_state, camera, keys_pressed, screen, frames>>

(***************************************************************************)
(* The event loop of the server (uvicorn.run, one process): every handler  *)
(* of main.py is a coroutine of that loop.  loop_task is the coroutine the *)
(* loop is running ("none": the loop is idle), task_pc the position of the *)
(* WebSocket stream ("stream") and of an HTTP request ("request").         *)
(***************************************************************************)
VARIABLES loop_task, task_pc

loop_vars == <<loop_task, task_pc>>

vars == <<am_vars, eng_vars, loop_vars>>

\* no request is being served
LoopIdle ==
    /\ loop_task = "none"
    /\ task_pc = [stream |-> "closed", request |-> "idle"]

EmptyMap == [k \in {} |-> None]

\* What the provider, the network and the disk can answer to one request.
Responses ==
    {"ok", "bad_status", "transport_error"} \cup
    (IF disk_faulty THEN {"artifact_write_error", "index_write_error"} ELSE {})

(***************************************************************************)
(* AssetManager._generate_dalle_asset                                      *)
(***************************************************************************)
\* A faulty lookup: the index alone decides, the artifact is not looked for.
IndexHit(cache, disk, cache_key) == cache_key \in DOMAIN cache

CacheHit(cache, disk, cache_key) ==
    cache_key \in DOMAIN cache /\ CachedPath(cache_key) \in disk

\* A faulty update of the index: the new entry replaces the index.
IndexOnly(cache, cache_key, asset_path) == (cache_key :> asset_path)

\* line 238: self.asset_cache[cache_key] = asset_path
IndexWith(cache, cache_key, asset_path) == (cache_key :> asset_path) @@ cache

_generate_dalle_asset(asset_info, response) ==
    LET cache_key == get_cache_key(asset_info.prompt, asset_info.type)
        asset_path == CachedPath(cache_key)
        unchanged == [asset_cache |-> asset_cache, disk_index |-> disk_index,
                      files |-> files]
    IN  IF CacheHit(asset_cache, files, cache_key)
        THEN unchanged @@ [path |-> asset_path, posted |-> FALSE, event |-> "cached",
                           detail |-> ""]
        ELSE CASE response = "ok" ->
                    [asset_cache |-> IndexWith(asset_cache, cache_key, asset_path),
                     disk_index |-> IndexWith(asset_cache, cache_key, asset_path),
                     files |-> files \cup {asset_path},
                     path |-> asset_path, posted |-> TRUE, event |-> "generated",
                     detail |-> ""]
               [] response = "bad_status" ->
                    unchanged @@ [path |-> None, posted |-> TRUE,
                                  event |-> "request_failed", detail |-> ""]
               [] response = "index_write_error" ->
                    [asset_cache |-> IndexWith(asset_cache, cache_key, asset_path),
                     disk_index |-> disk_index,
                     files |-> files \cup {asset_path},
                     path |-> None, posted |-> TRUE, event |-> "error",
                     detail |-> response]
               [] OTHER ->
                    unchanged @@ [path |-> None, posted |-> TRUE, event |-> "error",
                                  detail |-> response]

(***************************************************************************)
(* AssetManager._get_remaining_entities, _create_fallback_asset            *)
(***************************************************************************)
\* A faulty scan: the first entity of the description is never looked at.
RemainingAfterFirst(gd, generated_assets) ==
    IF gd.entities = <<>> THEN <<>>
    ELSE SelectSeq(Tail(gd.entities),
                   LAMBDA entity : entity.name \notin DOMAIN generated_assets)

_get_remaining_entities(gd, generated_assets) ==
    SelectSeq(gd.entities, LAMBDA entity : entity.name \notin DOMAIN generated_assets)

_create_fallback_asset(entity) ==
    FallbackPath(entity.name, Get(entity, "color", "#4A90E2"))

RECURSIVE BindFallbacks(_, _)
BindFallbacks(remaining, bound) ==
    IF remaining = <<>> THEN bound
    ELSE BindFallbacks(Tail(remaining),
             (Head(remaining).name :> _create_fallback_asset(Head(remaining))) @@ bound)

(***************************************************************************)
(* AssetManager.generate_game_assets                                       *)
(***************************************************************************)
\* Faulty bookkeeping: a resolved asset counted twice; a resolved asset not bound.
CountTwice(count, asset_path) == IF asset_path # None THEN count + 2 ELSE count

BindDropped(bound, name, asset_path) == bound

CountAfter(count, asset_path) == IF asset_path # None THEN count + 1 ELSE count

BindAfter(bound, name, asset_path) ==
    IF asset_path # None THEN (name :> asset_path) @@ bound ELSE bound

\* A faulty loop: a candidate that failed is taken again.
RetryFailed(idx, asset_path) == IF asset_path = None THEN idx ELSE idx + 1

\* line 54: the for loop goes on to the next candidate, whatever the result
NextCandidate(idx, asset_path) == idx + 1

\* lines 45-49: the counter is reset and the candidates are ranked
StartGeneration ==
    /\ am_pc = "idle"
    /\ assets' = EmptyMap
    /\ dalle_request_count' = 0
    /\ priority_requests' = _identify_priority_assets(game_data)
    /\ am_idx' = 1
    /\ am_pc' = "generate"
    /\ UNCHANGED <<asset_cache, disk_index, files, game_data, requests_sent, am_log,
                   disk_faulty>>
    /\ UNCHANGED eng_vars
    /\ UNCHANGED loop_vars

\* lines 54-62: one iteration of the loop over priority_requests
GenerateAsset ==
    /\ am_pc = "generate"
    /\ am_idx <= Len(priority_requests)
    /\ IF dalle_request_count >= MAX_DALLE_REQUESTS_PER_GAME
       THEN /\ am_idx' = Len(priority_requests) + 1
            /\ am_log' = [event |-> "limit_reached", name |-> "", detail |-> ""]
            /\ UNCHANGED <<asset_cache, disk_index, files, dalle_request_count,
                           assets, requests_sent>>
       ELSE \E response \in Responses :
              LET asset_info == priority_requests[am_idx]
                  r == _generate_dalle_asset(asset_info, response)
              IN  /\ asset_cache' = r.asset_cache
                  /\ disk_index' = r.disk_index
                  /\ files' = r.files
                  /\ requests_sent' = IF r.posted
                                      THEN Append(requests_sent,
                                                  [name |-> asset_info.name,
                                                   ok |-> r.path # None])
                                      ELSE requests_sent
                  /\ am_log' = [event |-> r.event, name |-> asset_info.name,
                                 detail |-> r.detail]
                  /\ assets' = BindAfter(assets, asset_info.name, r.path)
                  /\ dalle_request_count' = CountAfter(dalle_request_count, r.path)
                  /\ am_idx' = NextCandidate(am_idx, r.path)
    /\ UNCHANGED <<game_data, priority_requests, am_pc, disk_faulty>>
    /\ UNCHANGED eng_vars
    /\ UNCHANGED loop_vars

\* lines 64-71: fallbacks for the remaining entities, and the return.  The
\* image.save of _create_fallback_asset (284) is outside any try: when the
\* write of a fallback that is not yet on disk fails, generate_game_assets
\* raises, with the fallbacks before it written
FallbackAndReturn ==
    /\ am_pc = "generate"
    /\ am_idx > Len(priority_requests)
    /\ LET remaining_entities == _get_remaining_entities(game_data, assets)
           to_write == {i \in DOMAIN remaining_entities :
                           _create_fallback_asset(remaining_entities[i]) \notin files}
       IN  \E failing \in {0} \cup (IF disk_faulty THEN to_write ELSE {}) :
             IF failing = 0
             THEN /\ assets' = BindFallbacks(remaining_entities, assets)
                  /\ files' = files \cup
                         {_create_fallback_asset(remaining_entities[i]) :
                              i \in 1..Len(remaining_entities)}
                  /\ am_pc' = "returned"
             ELSE /\ assets' = BindFallbacks(SubSeq(remaining_entities, 1, failing - 1),
                                             assets)
                  /\ files' = files \cup
                         {_create_fallback_asset(remaining_entities[i]) :
                              i \in 1..(failing - 1)}
                  /\ am_pc' = "raised"
    /\ UNCHANGED <<asset_cache, disk_index, dalle_request_count, game_data,
                   priority_requests, am_idx, requests_sent, am_log, disk_faulty>>
    /\ UNCHANGED eng_vars
    /\ UNCHANGED loop_vars

(***************************************************************************)
(* The engine.  Every update is called with dt = 1/FPS (main.py 171, 205,  *)
(* 518), so the floats of the engine are kept as integers: a position is   *)
(* counted in 1/(FPS*FPS) pixel and a velocity in 1/FPS pixel per second,  *)
(* which makes velocity * dt the velocity's number, and GRAVITY * dt the   *)
(* number GRAVITY.                                                         *)
(***************************************************************************)
Px(pixels) == pixels * FPS * FPS
Vel(pixels_per_second) == pixels_per_second * FPS
TimesDt(velocity) == velocity

\* int(float): truncation toward zero, as pygame.Rect does with its arguments
TruncPx(position) ==
    IF position >= 0 THEN position \div (FPS * FPS) ELSE -((-position) \div (FPS * FPS))

Abs(n) == IF n < 0 THEN -n ELSE n

\* int(color_str[i:i+2], 16) for i in (0, 2, 4), after the '#' is dropped
HexDigit(c) ==
    CASE c = "0" -> 0 [] c = "1" -> 1 [] c = "2" -> 2 [] c = "3" -> 3
      [] c = "4" -> 4 [] c = "5" -> 5 [] c = "6" -> 6 [] c = "7" -> 7
      [] c = "8" -> 8 [] c = "9" -> 9 [] c = "A" -> 10 [] c = "B" -> 11
      [] c = "C" -> 12 [] c = "D" -> 13 [] c = "E" -> 14 [] c = "F" -> 15

HexTriple(digits) ==
    <<16 * HexDigit(digits[1]) + HexDigit(digits[2]),
      16 * HexDigit(digits[3]) + HexDigit(digits[4]),
      16 * HexDigit(digits[5]) + HexDigit(digits[6])>>

StartsWithHash(chars) == Len(chars) > 0 /\ chars[1] = "#"

(***************************************************************************)
(* GameObject and its subclasses.  An object is a record; cls is its class.*)
(***************************************************************************)
GameObject(cls, name, x, y, width, height) ==
    [cls |-> cls, name |-> name, x |-> x, y |-> y, width |-> width, height |-> height,
     velocity_x |-> 0, velocity_y |-> 0, color |-> <<255, 255, 255>>,
     sprite |-> FALSE, active |-> TRUE]

Player(name, x, y, width, height) ==
    GameObject("Player", name, x, y, width, height) @@
    [on_ground |-> FALSE, jump_force |-> Vel(JUMP_FORCE), move_speed |-> Vel(MOVE_SPEED),
     health |-> 100, can_jump |-> TRUE]

Enemy(name, x, y, width, height) ==
    GameObject("Enemy", name, x, y, width, height) @@
    [speed |-> Vel(50), direction |-> 1, patrol_range |-> Px(100), start_x |-> x]

Collectible(name, x, y, width, height, points) ==
    GameObject("Collectible", name, x, y, width, height) @@
    [points |-> points, collected |-> FALSE]

Platform(name, x, y, width, height) ==
    GameObject("Platform", name, x, y, width, height) @@ [solid |-> TRUE]

\* GameState()
GameState ==
    [score |-> 0, health |-> 100, time |-> 0, level |-> 0, lives |-> 3,
     game_over |-> FALSE, win |-> FALSE]

NoBody == [exists |-> FALSE]

(***************************************************************************)
(* PygameGameEngine.__init__: the fields of a constructed engine.  The     *)
(* typed holders hold positions of all_objects (0: no player).             *)
(***************************************************************************)
Constructed ==
    [game_type |-> "platformer", eng_assets |-> {}, background |-> FALSE,
     player |-> 0, enemies |-> <<>>, collectibles |-> <<>>, platforms |-> <<>>,
     all_objects |-> <<>>, body |-> NoBody, game_state |-> GameState,
     camera |-> [x |-> 0, y |-> 0], keys_pressed |-> {}]

(***************************************************************************)
(* PygameGameEngine._load_assets: a file that cannot be loaded is skipped  *)
(***************************************************************************)
_load_assets(e, asset_paths, disk) ==
    LET loaded == {n \in DOMAIN asset_paths : asset_paths[n] \in disk}
    IN  [e EXCEPT !.background = (@ \/ "background" \in loaded),
                  !.eng_assets = @ \cup (loaded \ {"background"})]

(***************************************************************************)
(* PygameGameEngine._create_entities                                       *)
(***************************************************************************)
CreateEntity(e, entity_data) ==
    LET name == Get(entity_data, "name", "unnamed")
        entity_type == Get(entity_data, "type", "object")
        x == Px(Get(entity_data, "x", 0))
        y == Px(Get(entity_data, "y", 0))
        width == Px(Get(entity_data, "width", 32))
        height == Px(Get(entity_data, "height", 32))
        created ==
            IF entity_type = "player"
            THEN [e EXCEPT !.player = Len(e.all_objects) + 1,
                           !.all_objects = Append(@,
                               [Player(name, x, y, width, height)
                                   EXCEPT !.sprite = name \in e.eng_assets])]
            ELSE IF HasEnemy(entity_type) \/ HasEnemy(name)
            THEN [e EXCEPT !.enemies = Append(@, Len(e.all_objects) + 1),
                           !.all_objects = Append(@,
                               [Enemy(name, x, y, width, height)
                                   EXCEPT !.sprite = name \in e.eng_assets])]
            ELSE e
        color_chars == StrChars(Get(entity_data, "color", "#FFFFFF"))
        color == IF StartsWithHash(color_chars)
                 THEN HexTriple(Tail(color_chars)) ELSE <<255, 255, 255>>
        last == Len(created.all_objects)
    IN  IF last > 0 /\ ~created.all_objects[last].sprite
        THEN [created EXCEPT !.all_objects[last].color = color]
        ELSE created

RECURSIVE _create_entities(_, _)
_create_entities(e, entities) ==
    IF entities = <<>> THEN e
    ELSE _create_entities(CreateEntity(e, Head(entities)), Tail(entities))

(***************************************************************************)
(* PygameGameEngine._create_level_objects                                  *)
(***************************************************************************)
CreatePlatform(e, platform_data) ==
    LET platform == Platform("platform_" \o ToString(Len(e.platforms)),
                             Px(Get(platform_data, "x", 0)), Px(Get(platform_data, "y", 0)),
                             Px(Get(platform_data, "width", 100)),
                             Px(Get(platform_data, "height", 20)))
        color_chars == StrChars(Get(platform_data, "color", "#8B4513"))
    IN  [e EXCEPT !.platforms = Append(@, Len(e.all_objects) + 1),
                  !.all_objects = Append(@,
                      IF StartsWithHash(color_chars)
                      THEN [platform EXCEPT !.color = HexTriple(Tail(color_chars))]
                      ELSE platform)]

CreateCollectible(e, collectible_data) ==
    LET collectible == Collectible("collectible_" \o ToString(Len(e.collectibles)),
                                   Px(Get(collectible_data, "x", 0)),
                                   Px(Get(collectible_data, "y", 0)),
                                   Px(Get(collectible_data, "width", 20)),
                                   Px(Get(collectible_data, "height", 20)),
                                   Get(collectible_data, "points", 10))
    IN  [e EXCEPT !.collectibles = Append(@, Len(e.all_objects) + 1),
                  !.all_objects = Append(@,
                      IF "collectible" \in e.eng_assets
                      THEN [collectible EXCEPT !.sprite = TRUE]
                      ELSE [collectible EXCEPT !.color = <<255, 215, 0>>])]

RECURSIVE CreatePlatforms(_, _)
CreatePlatforms(e, data) ==
    IF data = <<>> THEN e ELSE CreatePlatforms(CreatePlatform(e, Head(data)), Tail(data))

RECURSIVE CreateCollectibles(_, _)
CreateCollectibles(e, data) ==
    IF data = <<>> THEN e ELSE CreateCollectibles(CreateCollectible(e, Head(data)), Tail(data))

_create_level_objects(e, level_data) ==
    CreateCollectibles(CreatePlatforms(e, Get(level_data, "platforms", <<>>)),
                       Get(level_data, "collectibles", <<>>))

(***************************************************************************)
(* PygameGameEngine._setup_physics: the dynamic body of the player, at the *)
(* centre of its box, at rest.  The static bodies of the platforms are the *)
(* boxes of the platforms themselves.                                      *)
(***************************************************************************)
_setup_physics(e) ==
    IF e.player # 0
    THEN LET p == e.all_objects[e.player]
         IN  [e EXCEPT !.body = [exists |-> TRUE,
                                 x |-> p.x + p.width \div 2, y |-> p.y + p.height \div 2,
                                 vx |-> 0, vy |-> 0]]
    ELSE e

(***************************************************************************)
(* PygameGameEngine.initialize_game.  GameType(...) raises on a string     *)
(* that is no game type, and levels[0] raises on an empty list of levels:  *)
(* the engine then keeps what was built before the exception.              *)
(***************************************************************************)
GameTypes == {"platformer", "racing", "flappy", "shooter", "tetris"}

initialize_game(e, gd, asset_paths, disk) ==
    IF gd.gameType \notin GameTypes
    THEN [engine |-> e, ok |-> FALSE]
    ELSE LET typed == [e EXCEPT !.game_type = gd.gameType]
             with_entities == _create_entities(_load_assets(typed, asset_paths, disk),
                                               gd.entities)
         IN  IF gd.levels = <<>>
             THEN [engine |-> with_entities, ok |-> FALSE]
             ELSE [engine |-> _setup_physics(
                                  _create_level_objects(with_entities, gd.levels[1])),
                   ok |-> TRUE]

(***************************************************************************)
(* Player.jump, move_left, move_right, stop_horizontal                     *)
(***************************************************************************)
\* A faulty jump: taken in mid-air too.
jump_midair(p) == [p EXCEPT !.velocity_y = p.jump_force, !.on_ground = FALSE]

jump(p) ==
    IF p.on_ground /\ p.can_jump
    THEN [p EXCEPT !.velocity_y = p.jump_force, !.on_ground = FALSE]
    ELSE p

move_left(p) == [p EXCEPT !.velocity_x = -p.move_speed]
move_right(p) == [p EXCEPT !.velocity_x = p.move_speed]
stop_horizontal(p) == [p EXCEPT !.velocity_x = 0]

\* v *= 0.9
Decay(v) == (v * 9) \div 10

(***************************************************************************)
(* PygameGameEngine.handle_input                                           *)
(***************************************************************************)
PlatformerInput(p, keys) ==
    LET moved == IF "left" \in keys \/ "a" \in keys THEN move_left(p)
                 ELSE IF "right" \in keys \/ "d" \in keys THEN move_right(p)
                 ELSE stop_horizontal(p)
    IN  IF "up" \in keys \/ "w" \in keys \/ "space" \in keys THEN jump(moved) ELSE moved

RacingInput(p, keys) ==
    [p EXCEPT !.velocity_y = IF "up" \in keys \/ "w" \in keys THEN -Vel(MOVE_SPEED)
                             ELSE IF "down" \in keys \/ "s" \in keys THEN Vel(MOVE_SPEED)
                             ELSE Decay(@),
              !.velocity_x = IF "left" \in keys \/ "a" \in keys THEN -Vel(MOVE_SPEED)
                             ELSE IF "right" \in keys \/ "d" \in keys THEN Vel(MOVE_SPEED)
                             ELSE Decay(@)]

\* A faulty handle_input: a key press clears the flags of a finished game.
handle_input_fresh(e, keys) ==
    [e EXCEPT !.keys_pressed = keys,
              !.game_state.game_over = FALSE, !.game_state.win = FALSE]

handle_input(e, keys) ==
    LET pressed == [e EXCEPT !.keys_pressed = keys]
    IN  IF e.player = 0 THEN pressed
        ELSE IF e.game_type = "platformer"
        THEN [pressed EXCEPT !.all_objects[e.player] = PlatformerInput(@, keys)]
        ELSE IF e.game_type = "racing"
        THEN [pressed EXCEPT !.all_objects[e.player] = RacingInput(@, keys)]
        ELSE pressed

(***************************************************************************)
(* GameObject.update, Enemy.update                                         *)
(***************************************************************************)
GameObject_update(obj) ==
    [obj EXCEPT !.x = @ + TimesDt(obj.velocity_x), !.y = @ + TimesDt(obj.velocity_y)]

\* A faulty patrol: the enemy does not turn at the far end.
Enemy_update_one_way(obj) ==
    LET direction == IF obj.x <= obj.start_x THEN 1 ELSE obj.direction
    IN  GameObject_update([obj EXCEPT !.direction = direction,
                                      !.velocity_x = obj.speed * direction])

Enemy_update(obj) ==
    LET direction == IF obj.x >= obj.start_x + obj.patrol_range THEN -1
                     ELSE IF obj.x <= obj.start_x THEN 1
                     ELSE obj.direction
    IN  GameObject_update([obj EXCEPT !.direction = direction,
                                      !.velocity_x = obj.speed * direction])

ObjectUpdate(obj) == IF obj.cls = "Enemy" THEN Enemy_update(obj) ELSE GameObject_update(obj)

Range(seq) == {seq[i] : i \in DOMAIN seq}

\* update, lines 335-338: every active object of all_objects
UpdateAllObjects(objects) ==
    [i \in DOMAIN objects |->
        IF objects[i].active THEN ObjectUpdate(objects[i]) ELSE objects[i]]

\* update, lines 340-343: every active enemy of the enemies list
UpdateEnemies(objects, enemy_list) ==
    [i \in DOMAIN objects |->
        IF i \in Range(enemy_list) /\ objects[i].active
        THEN Enemy_update(objects[i]) ELSE objects[i]]

(***************************************************************************)
(* pymunk: Space.step(dt) for the one dynamic body.  The position is       *)
(* integrated with the velocity of the last step, then the velocity with   *)
(* the gravity; a body that stands on or has sunk into the top of a        *)
(* platform while not moving up is put on the platform, at rest.           *)
(***************************************************************************)
Supports(platform, b, p) ==
    /\ b.x - p.width \div 2 < platform.x + platform.width
    /\ b.x + p.width \div 2 > platform.x
    /\ b.y + p.height \div 2 >= platform.y
    /\ b.y < platform.y + platform.height

SpaceStep(b, p, objects, platform_list) ==
    LET moved == [b EXCEPT !.x = @ + TimesDt(b.vx), !.y = @ + TimesDt(b.vy)]
        under == {i \in Range(platform_list) : Supports(objects[i], moved, p)}
    IN  IF b.vy >= 0 /\ under # {}
        THEN LET top == CHOOSE i \in under : \A j \in under : objects[i].y <= objects[j].y
             IN  [moved EXCEPT !.y = objects[top].y - p.height \div 2, !.vy = 0]
        ELSE [moved EXCEPT !.vy = @ + GRAVITY]

\* update, lines 326-333: the player follows its body
SyncPlayer(p, b) ==
    [p EXCEPT !.x = b.x - p.width \div 2,
              !.y = b.y - p.height \div 2,
              !.on_ground = Abs(b.vy) < Vel(10)]

(***************************************************************************)
(* pygame.Rect and Rect.colliderect                                        *)
(***************************************************************************)
Rect(obj) ==
    [x |-> TruncPx(obj.x), y |-> TruncPx(obj.y),
     w |-> TruncPx(obj.width), h |-> TruncPx(obj.height)]

colliderect(a, b) ==
    /\ a.w > 0 /\ a.h > 0 /\ b.w > 0 /\ b.h > 0
    /\ a.x < b.x + b.w /\ a.y < b.y + b.h
    /\ a.x + a.w > b.x /\ a.y + a.h > b.y

\* A faulty collect: no guard, and the collectible stays active.
collect_always(c) == [obj |-> [c EXCEPT !.collected = TRUE], points |-> c.points]

(***************************************************************************)
(* Collectible.collect: the collectible afterwards, and the points returned*)
(***************************************************************************)
collect(c) ==
    IF ~c.collected
    THEN [obj |-> [c EXCEPT !.collected = TRUE, !.active = FALSE], points |-> c.points]
    ELSE [obj |-> c, points |-> 0]

(***************************************************************************)
(* PygameGameEngine._check_collisions                                      *)
(***************************************************************************)
\* score += points raises TypeError when points is not a number (a null in
\* the description is None); an engine whose call raised carries the mark
\* raised, and holds what the call had done until then.
IsNumber(value) == ToString(value) # ToString(None)
Raised(e) == "raised" \in DOMAIN e
Raise(e) == [raised |-> TRUE] @@ e

RECURSIVE CheckCollectibles(_, _, _)
CheckCollectibles(e, player_rect, todo) ==
    IF todo = <<>> THEN e
    ELSE LET c == e.all_objects[Head(todo)]
             hit == c.active /\ colliderect(player_rect, Rect(c))
             got == collect(c)
             collected == [e EXCEPT !.all_objects[Head(todo)] = got.obj]
         IN  IF ~hit THEN CheckCollectibles(e, player_rect, Tail(todo))
             ELSE IF ~IsNumber(got.points) THEN Raise(collected)
             ELSE CheckCollectibles(
                      [collected EXCEPT !.game_state.score = @ + got.points],
                      player_rect, Tail(todo))

\* A faulty enemy check: the loop ends at the first enemy that hits.
RECURSIVE CheckEnemiesOnce(_, _, _)
CheckEnemiesOnce(e, player_rect, todo) ==
    IF todo = <<>> THEN e
    ELSE LET enemy == e.all_objects[Head(todo)]
             hit == enemy.active /\ colliderect(player_rect, Rect(enemy))
             health == e.all_objects[e.player].health - 10
         IN  IF hit
             THEN [e EXCEPT !.all_objects[e.player].health = health,
                            !.game_state.game_over = (@ \/ health <= 0)]
             ELSE CheckEnemiesOnce(e, player_rect, Tail(todo))

RECURSIVE CheckEnemies(_, _, _)
CheckEnemies(e, player_rect, todo) ==
    IF todo = <<>> THEN e
    ELSE LET enemy == e.all_objects[Head(todo)]
             hit == enemy.active /\ colliderect(player_rect, Rect(enemy))
             health == e.all_objects[e.player].health - 10
         IN  CheckEnemies(
                 IF hit
                 THEN [e EXCEPT !.all_objects[e.player].health = health,
                                !.game_state.game_over = (@ \/ health <= 0)]
                 ELSE e,
                 player_rect, Tail(todo))

_check_collisions(e) ==
    IF e.player = 0 THEN e
    ELSE LET player_rect == Rect(e.all_objects[e.player])
             checked == CheckCollectibles(e, player_rect, e.collectibles)
         IN  IF Raised(checked) THEN checked
             ELSE CheckEnemies(checked, player_rect, e.enemies)

(***************************************************************************)
(* PygameGameEngine._update_camera: camera += (target - camera) * 0.1,     *)
(* rounded down to the unit of positions                                   *)
(***************************************************************************)
_update_camera(e) ==
    IF e.player = 0 THEN e
    ELSE LET target_x == e.all_objects[e.player].x - Px(GAME_WIDTH \div 2)
             target_y == e.all_objects[e.player].y - Px(GAME_HEIGHT \div 2)
         IN  [e EXCEPT !.camera.x = @ + (target_x - @) \div 10,
                       !.camera.y = @ + (target_y - @) \div 10]

(***************************************************************************)
(* PygameGameEngine._check_game_conditions                                 *)
(***************************************************************************)
\* Faulty conditions: no lose check for a fall; a win with no collectible
\* at all; the lose check at the bottom of the viewport.
ConditionsNoFall(e) ==
    LET won == (\A i \in Range(e.collectibles) : ~e.all_objects[i].active)
               /\ Len(e.collectibles) > 0
    IN  [e EXCEPT !.game_state.win = (@ \/ won)]

ConditionsWithoutCount(e) ==
    LET won == \A i \in Range(e.collectibles) : ~e.all_objects[i].active
        fell == e.player # 0 /\ e.all_objects[e.player].y > Px(GAME_HEIGHT + 200)
    IN  [e EXCEPT !.game_state.win = (@ \/ won),
                  !.game_state.game_over = (@ \/ fell)]

ConditionsAtViewport(e) ==
    LET won == (\A i \in Range(e.collectibles) : ~e.all_objects[i].active)
               /\ Len(e.collectibles) > 0
        fell == e.player # 0 /\ e.all_objects[e.player].y > Px(GAME_HEIGHT)
    IN  [e EXCEPT !.game_state.win = (@ \/ won),
                  !.game_state.game_over = (@ \/ fell)]

_check_game_conditions(e) ==
    LET won == (\A i \in Range(e.collectibles) : ~e.all_objects[i].active)
               /\ Len(e.collectibles) > 0
        fell == e.player # 0 /\ e.all_objects[e.player].y > Px(GAME_HEIGHT + 200)
    IN  [e EXCEPT !.game_state.win = (@ \/ won),
                  !.game_state.game_over = (@ \/ fell)]

(***************************************************************************)
(* PygameGameEngine.update, with dt = 1/FPS; game_state.time is counted in *)
(* 1/FPS second                                                            *)
(***************************************************************************)
StepAndSync(e) ==
    IF e.player # 0 /\ e.body.exists
    THEN LET b == SpaceStep(e.body, e.all_objects[e.player], e.all_objects, e.platforms)
         IN  [e EXCEPT !.body = b, !.all_objects[e.player] = SyncPlayer(@, b)]
    ELSE e

MoveObjects(e) ==
    [e EXCEPT !.all_objects = UpdateEnemies(UpdateAllObjects(@), e.enemies)]

update(e) ==
    LET collided == _check_collisions(MoveObjects(StepAndSync(
                        [e EXCEPT !.game_state.time = @ + 1])))
    IN  IF Raised(collided) THEN collided
        ELSE _check_game_conditions(_update_camera(collided))

(***************************************************************************)
(* PygameGameEngine.render, _render_ui: what is drawn                      *)
(***************************************************************************)
Blank == [background |-> FALSE, drawn |-> <<>>, score |-> 0, health |-> None,
          time |-> 0, banner |-> ""]

Drawing(e) ==
    [background |-> e.background,
     drawn |-> SelectSeq([i \in DOMAIN e.all_objects |-> i],
                         LAMBDA i : e.all_objects[i].active),
     score |-> e.game_state.score,
     health |-> IF e.player # 0 THEN ToString(e.all_objects[e.player].health) ELSE None,
     time |-> e.game_state.time \div FPS,
     banner |-> IF e.game_state.game_over THEN "GAME OVER"
                ELSE IF e.game_state.win THEN "YOU WIN!" ELSE ""]

\* A faulty render: the camera is moved while drawing.
render_advancing(e) == [engine |-> _update_camera(e), screen |-> Drawing(e)]

\* the engine after the call, and the surface returned
render(e) == [engine |-> e, screen |-> Drawing(e)]

(***************************************************************************)
(* PygameGameEngine.reset_game                                             *)
(***************************************************************************)
\* A faulty reset of the collectibles: reactivated, but still collected.
ReactivateOnly(objects, collectible_list) ==
    [i \in DOMAIN objects |->
        IF i \in Range(collectible_list)
        THEN [objects[i] EXCEPT !.active = TRUE]
        ELSE objects[i]]

\* A faulty reset of the collectibles: not collected, but still inactive.
ResetFlagOnly(objects, collectible_list) ==
    [i \in DOMAIN objects |->
        IF i \in Range(collectible_list)
        THEN [objects[i] EXCEPT !.collected = FALSE]
        ELSE objects[i]]

ResetCollectibles(objects, collectible_list) ==
    [i \in DOMAIN objects |->
        IF i \in Range(collectible_list)
        THEN [objects[i] EXCEPT !.active = TRUE, !.collected = FALSE]
        ELSE objects[i]]

\* A faulty reset: the game state is replaced, the player's health is kept.
reset_game_keeps_health(e) ==
    LET fresh == [e EXCEPT !.game_state = GameState]
        respawned ==
            IF e.player # 0 /\ e.body.exists
            THEN [fresh EXCEPT !.body.x = Px(100), !.body.y = Px(400)]
            ELSE fresh
    IN  [respawned EXCEPT !.all_objects = ResetCollectibles(@, e.collectibles)]

reset_game(e) ==
    LET fresh == [e EXCEPT !.game_state = GameState]
        respawned ==
            IF e.player = 0 THEN fresh
            ELSE IF e.body.exists
            THEN [fresh EXCEPT !.all_objects[e.player].health = 100,
                               !.body.x = Px(100), !.body.y = Px(400)]
            ELSE [fresh EXCEPT !.all_objects[e.player].health = 100]
    IN  [respawned EXCEPT !.all_objects = ResetCollectibles(@, e.collectibles)]

(***************************************************************************)
(* The requests of main.py on the global engine.                           *)
(***************************************************************************)
MaxFrames == 4

Engine ==
    [game_type |-> game_type, eng_assets |-> eng_assets, background |-> background,
     player |-> player, enemies |-> enemies, collectibles |-> collectibles,
     platforms |-> platforms, all_objects |-> all_objects, body |-> body,
     game_state |-> game_state, camera |-> camera, keys_pressed |-> keys_pressed]

EngineBecomes(e) ==
    /\ game_type' = e.game_type
    /\ eng_assets' = e.eng_assets
    /\ background' = e.background
    /\ player' = e.player
    /\ enemies' = e.enemies
    /\ collectibles' = e.collectibles
    /\ platforms' = e.platforms
    /\ all_objects' = e.all_objects
    /\ body' = e.body
    /\ game_state' = e.game_state
    /\ camera' = e.camera
    /\ keys_pressed' = e.keys_pressed

KeySets == {{}, {"left"}, {"right", "up"}, {"left", "right"}, {"space"}}

\* main.py 92-97: a new engine is made the global one, then initialized
InitializeGame ==
    /\ am_pc = "returned"
    /\ game_engine = "none"
    /\ LET r == initialize_game(Constructed, game_data, assets, files)
       IN  /\ EngineBecomes(r.engine)
           /\ game_engine' = IF r.ok THEN "initialized" ELSE "created"
           /\ game_running' = (game_running \/ r.ok)
    /\ UNCHANGED <<screen, frames>>
    /\ UNCHANGED am_vars
    /\ UNCHANGED loop_vars

\* main.py 113-141
HandleInput ==
    /\ game_engine # "none"
    /\ \E keys \in KeySets : EngineBecomes(handle_input(Engine, keys))
    /\ UNCHANGED <<game_engine, game_running, screen, frames>>
    /\ UNCHANGED am_vars
    /\ UNCHANGED loop_vars

\* main.py 161-229, 516-537: one frame, game_engine.update(1.0 / FPS) and then
\* game_engine.render(); when update raises, the handler answers 500 and
\* render is not called
Frame ==
    /\ game_engine # "none"
    /\ \E updated \in {update(Engine)} :
         IF Raised(updated)
         THEN /\ EngineBecomes(updated)
              /\ screen' = screen
         ELSE \E rendered \in {render(updated)} :
                /\ EngineBecomes(rendered.engine)
                /\ screen' = rendered.screen
    /\ frames' = frames + 1
    /\ UNCHANGED <<game_engine, game_running>>
    /\ UNCHANGED am_vars
    /\ UNCHANGED loop_vars

GetGameFrame ==
    /\ frames < MaxFrames
    /\ Frame

\* main.py 231-244
ResetGame ==
    /\ game_engine # "none"
    /\ EngineBecomes(reset_game(Engine))
    /\ UNCHANGED <<game_engine, game_running, screen, frames>>
    /\ UNCHANGED am_vars
    /\ UNCHANGED loop_vars

NoEngine ==
    /\ game_engine = "none"
    /\ game_running = FALSE
    /\ game_type = Constructed.game_type
    /\ eng_assets = Constructed.eng_assets
    /\ background = Constructed.background
    /\ player = Constructed.player
    /\ enemies = Constructed.enemies
    /\ collectibles = Constructed.collectibles
    /\ platforms = Constructed.platforms
    /\ all_objects = Constructed.all_objects
    /\ body = Constructed.body
    /\ game_state = Constructed.game_state
    /\ camera = Constructed.camera
    /\ keys_pressed = Constructed.keys_pressed
    /\ screen = Blank
    /\ frames = 0

(***************************************************************************)
(* The asset pipeline: one invocation of generate_game_assets on any game  *)
(* description, from any content of the cache directory and any value the  *)
(* counter was left at.                                                    *)
(***************************************************************************)
CandidateKeys(gd) ==
    {get_cache_key(PriorityList(gd)[i].prompt, PriorityList(gd)[i].type) :
         i \in 1..Len(PriorityList(gd))}

InitAssets ==
    /\ game_data \in GameDescriptions
    /\ \E indexed \in SUBSET CandidateKeys(game_data) :
         /\ asset_cache = [k \in indexed |-> CachedPath(k)]
         /\ disk_index = asset_cache
         /\ \E stale \in SUBSET indexed :
              files = {CachedPath(k) : k \in indexed \ stale}
    /\ dalle_request_count \in {0, MAX_DALLE_REQUESTS_PER_GAME}
    /\ assets = EmptyMap
    /\ priority_requests = <<>>
    /\ am_idx = 1
    /\ am_pc = "idle"
    /\ requests_sent = <<>>
    /\ am_log = [event |-> "none", name |-> "", detail |-> ""]
    /\ disk_faulty = FALSE
    /\ NoEngine
    /\ LoopIdle

NextAssets == StartGeneration \/ GenerateAsset \/ FallbackAndReturn

SpecAssets == InitAssets /\ [][NextAssets]_vars

(***************************************************************************)
(* The engine: the requests of main.py on the engine of one game, after    *)
(* the asset pipeline has returned with every candidate generated.  The    *)
(* images of the cache directory are all loadable, or all missing.         *)
(***************************************************************************)
HeroAt(x, y) == [name |-> "hero", type |-> "player", color |-> "#FF0000", x |-> x, y |-> y]
Enemy1 == [name |-> "enemy_1", type |-> "enemy", color |-> "#00FF00", x |-> 100, y |-> 400]
BigEnemy == [name |-> "BigEnemy", type |-> "object", color |-> "#0000FF", x |-> 110, y |-> 390]
Guard == [name |-> "coin", type |-> "enemy", x |-> 90, y |-> 410]
Coin == [name |-> "coin", type |-> "object"]

Ground == [x |-> 0, y |-> 432, width |-> 200, height |-> 20]
NearCoin == [x |-> 110, y |-> 410, points |-> 10]
FarCoin == [x |-> 600, y |-> 100, points |-> 5]
SpawnCoin == [x |-> 86, y |-> 386, width |-> 10, height |-> 10, points |-> 20]
CursedCoin == [x |-> 110, y |-> 410, points |-> -10]

Game(type, entities, levels) ==
    [gameType |-> type, theme |-> "fantasy", artStyle |-> "pixel",
     entities |-> entities, levels |-> levels]

EngineDescriptions ==
    { Game("platformer", <<HeroAt(100, 400), Enemy1, BigEnemy, Guard>>,
           <<[platforms |-> <<Ground>>, collectibles |-> <<NearCoin, FarCoin>>]>>),
      Game("platformer", <<HeroAt(100, 400)>>,
           <<[platforms |-> <<>>, collectibles |-> <<NearCoin, SpawnCoin>>]>>),
      Game("platformer", <<HeroAt(100, 400), Coin>>,
           <<[platforms |-> <<Ground>>, collectibles |-> <<CursedCoin>>]>>),
      Game("platformer", <<HeroAt(0, 799)>>, <<EmptyLevel>>),
      Game("platformer", <<Enemy1>>,
           <<[platforms |-> <<Ground>>, collectibles |-> <<NearCoin>>]>>),
      Game("platformer", <<HeroAt(100, 400), Coin>>, <<>>),
      Game("puzzle", <<HeroAt(100, 400)>>, <<EmptyLevel>>),
      Game("platformer", <<>>, <<EmptyLevel>>) }

Generated(gd) ==
    LET ranked == _identify_priority_assets(gd)
    IN  [n \in {ranked[i].name : i \in DOMAIN ranked} |->
            LET i == CHOOSE i \in DOMAIN ranked : ranked[i].name = n
            IN  CachedPath(get_cache_key(ranked[i].prompt, ranked[i].type))]

\* generate_game_assets has returned for game_data, and no engine exists yet
PipelineReturned ==
    /\ priority_requests = _identify_priority_assets(game_data)
    /\ assets = BindFallbacks(_get_remaining_entities(game_data, Generated(game_data)),
                              Generated(game_data))
    /\ files \in {Range(assets), {}}
    /\ asset_cache = [k \in {get_cache_key(priority_requests[i].prompt,
                                           priority_requests[i].type) :
                                 i \in DOMAIN priority_requests} |-> CachedPath(k)]
    /\ disk_index = asset_cache
    /\ dalle_request_count = Len(priority_requests)
    /\ requests_sent = [i \in DOMAIN priority_requests |->
                            [name |-> priority_requests[i].name, ok |-> TRUE]]
    /\ am_idx = Len(priority_requests) + 1
    /\ am_pc = "returned"
    /\ am_log = IF priority_requests = <<>> THEN [event |-> "none", name |-> "", detail |-> ""]
                ELSE [event |-> "generated",
                      name |-> priority_requests[Len(priority_requests)].name,
                      detail |-> ""]
    /\ disk_faulty = FALSE
    /\ NoEngine
    /\ LoopIdle

InitEngine ==
    /\ game_data \in EngineDescriptions
    /\ PipelineReturned

NextEngine == InitializeGame \/ HandleInput \/ GetGameFrame \/ ResetGame

SpecEngine == InitEngine /\ [][NextEngine]_vars

(***************************************************************************)
(* Properties of the asset pipeline (SpecAssets).                          *)
(***************************************************************************)
K == MAX_DALLE_REQUESTS_PER_GAME

InInvocation == am_pc \in {"generate", "returned"}
Returned == am_pc = "returned"

EntityNames == {game_data.entities[i].name : i \in DOMAIN game_data.entities}
EntityNamed(n) ==
    game_data.entities[CHOOSE i \in DOMAIN game_data.entities :
                           game_data.entities[i].name = n]
KeyOf(asset_info) == get_cache_key(asset_info.prompt, asset_info.type)
IsFallback(n) == assets[n] = _create_fallback_asset(EntityNamed(n))

\* one iteration of the loop that called _generate_dalle_asset
Resolved(event) ==
    /\ am_pc = "generate" /\ am_pc' = "generate"
    /\ am_idx' = am_idx + 1
    /\ am_log'.event = event

\* C1: within one invocation of generate_game_assets the requests posted to
\* the provider and dalle_request_count are both at most K, whatever the
\* description, the cache and the provider's answers; the invocation starts
\* counting from 0.
C1_BudgetRespected ==
    /\ InInvocation => /\ Len(requests_sent) <= K
                       /\ dalle_request_count <= K
    /\ (am_pc = "generate" /\ am_idx = 1) => /\ dalle_request_count = 0
                                              /\ requests_sent = <<>>

C1_Witness ==
    /\ Returned
    /\ dalle_request_count = K
    /\ Len(requests_sent) = K

\* C2: when generate_game_assets returns, the mapping has an entry for the
\* name of every entity of the description, and the entry is an image of
\* the cache directory (cached, generated or fallback): no entity is
\* unbound.
C2_EveryEntityBound ==
    Returned => \A n \in EntityNames :
                    /\ n \in DOMAIN assets
                    /\ assets[n] # None
                    /\ assets[n] \in files

C2_Witness ==
    /\ Returned
    /\ Len(game_data.entities) = 2
    /\ \E n \in EntityNames : IsFallback(n)
    /\ \E n \in EntityNames : ~IsFallback(n)
    /\ \E i \in DOMAIN requests_sent : ~requests_sent[i].ok

\* C3: a candidate resolved by a cache hit (key in the index, artifact on
\* disk) is bound to the cached image and leaves dalle_request_count as it
\* was.
C3_CacheHitConsumesNoBudget ==
    [][Resolved("cached") =>
          /\ assets'[priority_requests[am_idx].name] =
                 CachedPath(KeyOf(priority_requests[am_idx]))
          /\ dalle_request_count' = dalle_request_count]_vars

\* C4: a candidate that misses the cache and whose request succeeds adds
\* exactly one to dalle_request_count, has its artifact stored under the
\* computed key, has the key added to the index (in memory and saved), and
\* has its name bound to that artifact; one request was posted for it.
C4_SuccessfulGeneration ==
    [][Resolved("generated") =>
          LET asset_info == priority_requests[am_idx]
              cache_key == KeyOf(asset_info)
          IN  /\ ~CacheHit(asset_cache, files, cache_key)
              /\ dalle_request_count' = dalle_request_count + 1
              /\ CachedPath(cache_key) \in files'
              /\ cache_key \in DOMAIN asset_cache'
              /\ asset_cache'[cache_key] = CachedPath(cache_key)
              /\ disk_index' = asset_cache'
              /\ asset_info.name \in DOMAIN assets'
              /\ assets'[asset_info.name] = CachedPath(cache_key)
              /\ requests_sent' = Append(requests_sent,
                                         [name |-> asset_info.name, ok |-> TRUE])]_vars

C4_Witness ==
    /\ am_pc = "generate"
    /\ am_log.event = "generated"
    /\ dalle_request_count = 2
    /\ am_log.name \in DOMAIN assets
    /\ assets[am_log.name] \in files
    /\ \E i \in DOMAIN requests_sent : ~requests_sent[i].ok

AllRequestsFailed ==
    /\ requests_sent # <<>>
    /\ \A i \in DOMAIN requests_sent : ~requests_sent[i].ok
FailedNames == {requests_sent[i].name : i \in {j \in DOMAIN requests_sent :
                                                     ~requests_sent[j].ok}}
OkNames == {requests_sent[i].name : i \in {j \in DOMAIN requests_sent :
                                                 requests_sent[j].ok}}

\* a failed request: a non-success response, or an exception
FailedStep == Resolved("request_failed") \/ Resolved("error")

\* C5, first part: a failed request leaves dalle_request_count and the
\* mapping as they were, and the loop goes on to the next candidate; an
\* entity whose request failed holds its fallback at the return.
C5_FailureIsContained ==
    [][/\ FailedStep => /\ dalle_request_count' = dalle_request_count
                        /\ assets' = assets
                        /\ am_idx' = am_idx + 1
                        /\ am_pc' = "generate"
       /\ (am_pc = "generate" /\ am_pc' = "returned") =>
              \A n \in (FailedNames \cap EntityNames) \ OkNames :
                  /\ n \in DOMAIN assets'
                  /\ assets'[n] = _create_fallback_asset(EntityNamed(n))]_vars

\* C5: a failed request changes neither dalle_request_count nor the mapping
\* and does not end the loop, an entity whose request failed gets a
\* fallback, and when every request of the invocation failed the counter is
\* 0 at the return and every entity holds its fallback.
C5_FailedRequests ==
    [][/\ FailedStep => /\ dalle_request_count' = dalle_request_count
                        /\ assets' = assets
                        /\ am_idx' = am_idx + 1
                        /\ am_pc' = "generate"
       /\ (am_pc = "generate" /\ am_pc' = "returned") =>
              /\ \A n \in (FailedNames \cap EntityNames) \ OkNames :
                     /\ n \in DOMAIN assets'
                     /\ assets'[n] = _create_fallback_asset(EntityNamed(n))
              /\ AllRequestsFailed =>
                     /\ dalle_request_count' = 0
                     /\ \A n \in EntityNames :
                            /\ n \in DOMAIN assets'
                            /\ assets'[n] = _create_fallback_asset(EntityNamed(n))]_vars

\* C6: a key of the index whose artifact is missing is a miss, and a
\* request is posted for the candidate; a lookup is a hit only with the key
\* in the index and the artifact on disk.
C6_StaleEntryIsMiss ==
    [][(am_pc = "generate" /\ am_idx' = am_idx + 1
        /\ dalle_request_count < K) =>
          LET asset_info == priority_requests[am_idx]
              cache_key == KeyOf(asset_info)
          IN  /\ (cache_key \in DOMAIN asset_cache
                  /\ CachedPath(cache_key) \notin files) =>
                     /\ am_log'.event # "cached"
                     /\ Len(requests_sent') = Len(requests_sent) + 1
                     /\ requests_sent'[Len(requests_sent')].name = asset_info.name
              /\ am_log'.event = "cached" =>
                     /\ cache_key \in DOMAIN asset_cache
                     /\ CachedPath(cache_key) \in files
                     /\ requests_sent' = requests_sent]_vars

\* the index held the key of the candidate just looked up, its artifact was
\* missing, and the request posted for it failed
C6_Witness ==
    /\ am_pc = "generate"
    /\ am_idx > 1
    /\ am_log.event = "request_failed"
    /\ KeyOf(priority_requests[am_idx - 1]) \in DOMAIN asset_cache
    /\ CachedPath(KeyOf(priority_requests[am_idx - 1])) \notin files
    /\ requests_sent # <<>>
    /\ requests_sent[Len(requests_sent)].name = priority_requests[am_idx - 1].name

Least(S) == CHOOSE i \in S : \A j \in S : i <= j
NamesOf(list) == [i \in DOMAIN list |-> list[i].name]
TypesOf(list) == [i \in DOMAIN list |-> list[i].type]

\* the names that contain 'enemy' in any case
EnemyNames == {"enemy_1", "BigEnemy"}

\* C7: the candidates are, in this order, the first entity of type player
\* (if any), the background (if there is a level), the first entity whose
\* name contains 'enemy' in any case (if any), one collectible (if a level
\* has one), one platform (if a level has one); at most one per category
\* and at most K in all.
C7_FixedPriorityOrder ==
    InInvocation =>
        LET entities == game_data.entities
            levels == game_data.levels
            players == {i \in DOMAIN entities : entities[i].type = "player"}
            foes == {i \in DOMAIN entities : entities[i].name \in EnemyNames}
            Some(field) == \E l \in DOMAIN levels : levels[l][field] # <<>>
            Opt(present, value) == IF present THEN <<value>> ELSE <<>>
        IN  /\ NamesOf(priority_requests) =
                   Opt(players # {}, entities[Least(players)].name)
                   \o Opt(Len(levels) >= 1, "background")
                   \o Opt(foes # {}, entities[Least(foes)].name)
                   \o Opt(Some("collectibles"), "collectible")
                   \o Opt(Some("platforms"), "platform")
            /\ TypesOf(priority_requests) =
                   Opt(players # {}, "character")
                   \o Opt(Len(levels) >= 1, "background")
                   \o Opt(foes # {}, "character")
                   \o Opt(Some("collectibles"), "item")
                   \o Opt(Some("platforms"), "tile")
            /\ Len(priority_requests) <= K

C7_Witness ==
    /\ am_pc = "generate"
    /\ NamesOf(game_data.entities) = <<"BigEnemy", "enemy_1">>
    /\ game_data.levels = <<EmptyLevel, FullLevel>>
    /\ NamesOf(priority_requests) = <<"background", "BigEnemy", "collectible", "platform">>

\* one player, one enemy named enemy_1, one level with 2 platforms and 1
\* collectible, no background field
C8_Description ==
    [gameType |-> "platformer", theme |-> "fantasy", artStyle |-> "pixel",
     entities |-> <<[name |-> "hero", type |-> "player", color |-> "#FF0000"],
                    [name |-> "enemy_1", type |-> "enemy", color |-> "#00FF00"]>>,
     levels |-> <<FullLevel>>]

\* the invocation has returned, no candidate was found in the cache and
\* every request succeeded
C8_FullSuccess ==
    /\ Returned
    /\ game_data = C8_Description
    /\ Len(requests_sent) = Len(priority_requests)
    /\ \A i \in DOMAIN requests_sent : requests_sent[i].ok

\* C8 as stated: in that run the background is not generated, four
\* categories are requested and dalle_request_count is 4 at the return.
C8_FourCalls ==
    C8_FullSuccess =>
        /\ "background" \notin Range(NamesOf(requests_sent))
        /\ Len(requests_sent) = 4
        /\ dalle_request_count = 4

\* C8: in that run the background is ranked because the description has a
\* level, the five categories are requested in rank order and
\* dalle_request_count is 5 at the return.
C8_FiveCalls ==
    C8_FullSuccess =>
        /\ NamesOf(requests_sent) =
               <<"hero", "background", "enemy_1", "collectible", "platform">>
        /\ dalle_request_count = 5
        /\ \A n \in Range(NamesOf(requests_sent)) : n \in DOMAIN assets

C8_Witness ==
    /\ C8_FullSuccess
    /\ dalle_request_count = 5
    /\ "background" \in DOMAIN assets

(***************************************************************************)
(* Properties of the engine (SpecEngine).                                  *)
(***************************************************************************)
RECURSIVE SumPoints(_, _)
SumPoints(objects, S) ==
    IF S = {} THEN 0
    ELSE LET i == CHOOSE i \in S : TRUE
         IN  objects[i].points + SumPoints(objects, S \ {i})

\* the collectibles that this step collects
NewlyCollected ==
    {i \in Range(collectibles') : all_objects'[i].collected
                                  /\ ~(i \in Range(collectibles)
                                       /\ all_objects[i].collected)}

\* a step of a session other than a reset
C9_Step ==
    /\ \A i \in Range(collectibles) :
           all_objects[i].collected =>
               /\ i \in Range(collectibles')
               /\ all_objects'[i].collected
               /\ ~all_objects'[i].active
    /\ \A i \in Range(collectibles') :
           all_objects'[i].collected <=> ~all_objects'[i].active
    /\ game_state'.score = game_state.score + SumPoints(all_objects', NewlyCollected)
    /\ frames' # frames =>
           \A i \in Range(collectibles') :
               all_objects'[i].collected => i \notin Range(screen'.drawn)

\* C9: without a reset a collectible's points are added to the score at
\* most once: a step adds to the score the points of the collectibles it
\* collects and nothing else, a collected collectible stays collected and
\* inactive (so no later collision check looks at it), and render does not
\* draw it.
C9_CollectedOnce == [][ResetGame \/ C9_Step]_vars

\* two frames on, the player still overlaps a collected collectible and the
\* score holds its points once
C9_Witness ==
    /\ frames >= 2
    /\ player # 0
    /\ game_state.score = 10
    /\ \E i \in Range(collectibles) :
           /\ all_objects[i].collected
           /\ all_objects[i].points = 10
           /\ colliderect(Rect(all_objects[player]), Rect(all_objects[i]))
           /\ i \notin Range(screen.drawn)

\* C10: without a reset the score is never negative and never decreases,
\* whatever the description.
C10_ScoreMonotonic ==
    [][ResetGame \/ (/\ game_state'.score >= 0
                     /\ game_state'.score >= game_state.score)]_vars

\* a step that ran update (a frame)
FrameStep == frames' = frames + 1

\* the active enemies whose box overlaps the player's box
Overlapping(objects, p, enemy_list) ==
    {i \in Range(enemy_list) :
         objects[i].active /\ colliderect(Rect(objects[p]), Rect(objects[i]))}

\* C11: an update takes 10 from the player's health for each active enemy
\* whose box overlaps the player's box at the collision check, on every
\* frame of the overlap; with no overlap the health is as it was.
C11_DamagePerFrame ==
    [][(FrameStep /\ player # 0) =>
          all_objects'[player'].health =
              all_objects[player].health
              - 10 * Cardinality(Overlapping(all_objects', player', enemies'))]_vars

\* two frames on, three enemies still overlap the player, and each frame
\* has taken 10 for each
C11_Witness ==
    /\ frames = 2
    /\ player # 0
    /\ Cardinality(Overlapping(all_objects, player, enemies)) = 3
    /\ all_objects[player].health = 40

\* C12 as stated: game_over is true if and only if the player's health is
\* at or below zero.
C12_LostIffNoHealth ==
    (game_engine # "none" /\ player # 0) =>
        (game_state.game_over <=> all_objects[player].health <= 0)

\* C12: an update sets game_over exactly when the player's health is at or
\* below zero or the player's y is beyond the viewport height + 200;
\* health at or below zero implies game_over, but game_over does not imply
\* it.
C12_LostByHealthOrFall ==
    [][/\ (FrameStep /\ player # 0) =>
              (game_state'.game_over <=>
                   \/ game_state.game_over
                   \/ all_objects'[player'].health <= 0
                   \/ all_objects'[player'].y > Px(GAME_HEIGHT + 200))
       /\ (player' # 0 /\ all_objects'[player'].health <= 0) =>
              game_state'.game_over]_vars

\* lost by a fall, with full health
C12_Witness ==
    /\ frames >= 1
    /\ player # 0
    /\ game_state.game_over
    /\ all_objects[player].health = 100
    /\ all_objects[player].y > Px(GAME_HEIGHT + 200)

\* lost by the enemies
C12_WitnessHealth ==
    /\ player # 0
    /\ game_state.game_over
    /\ all_objects[player].health <= 0

\* C13: win is true if and only if there is a collectible and every
\* collectible is inactive, after every update and every reset (and in
\* every other state); with no collectible win is never true.
C13_WinIffAllCollected ==
    game_state.win <=>
        /\ Len(collectibles) > 0
        /\ \A i \in Range(collectibles) : ~all_objects[i].active

C13_Witness ==
    /\ game_state.win
    /\ Len(collectibles) = 2
    /\ frames >= 2

\* an initialized game with no collectible, two frames on
C13_WitnessNone ==
    /\ game_engine = "initialized"
    /\ collectibles = <<>>
    /\ frames >= 2
    /\ ~game_state.win

\* C14: reset_game puts the player's health at 100, the score and the time
\* at 0, game_over and win at false, every collectible active and not
\* collected, and the player's body at (100, 400); the objects, the typed
\* lists, the loaded assets and the description stay as they were.
C14_ResetRestores ==
    [][ResetGame =>
          /\ game_state' = [score |-> 0, health |-> 100, time |-> 0, level |-> 0,
                            lives |-> 3, game_over |-> FALSE, win |-> FALSE]
          /\ player # 0 => all_objects'[player].health = 100
          /\ body.exists => /\ body'.x = Px(100)
                            /\ body'.y = Px(400)
          /\ \A i \in Range(collectibles) :
                 /\ all_objects'[i].active
                 /\ ~all_objects'[i].collected
                 /\ [all_objects'[i] EXCEPT !.active = all_objects[i].active,
                                            !.collected = all_objects[i].collected]
                        = all_objects[i]
          /\ \A i \in DOMAIN all_objects \ (Range(collectibles) \cup {player}) :
                 all_objects'[i] = all_objects[i]
          /\ player # 0 =>
                 [all_objects'[player] EXCEPT !.health = all_objects[player].health]
                     = all_objects[player]
          /\ DOMAIN all_objects' = DOMAIN all_objects
          /\ UNCHANGED <<player, enemies, platforms, collectibles, eng_assets,
                         background, game_type, game_data, assets>>]_vars

\* a reset after a frame that had collected: the screen still shows the
\* score of that frame
C14_Witness ==
    /\ frames >= 1
    /\ game_state.time = 0
    /\ game_state.score = 0
    /\ screen.score > 0
    /\ player # 0
    /\ all_objects[player].health = 100
    /\ body.exists /\ body.x = Px(100) /\ body.y = Px(400)
    /\ collectibles # <<>>
    /\ \A i \in Range(collectibles) : all_objects[i].active /\ ~all_objects[i].collected

\* C15: game_over and win, once true, stay true over every step that is
\* not a reset.
C15_TerminalUntilReset ==
    [][ResetGame \/ (/\ game_state.game_over => game_state'.game_over
                     /\ game_state.win => game_state'.win)]_vars

\* a won game, after a later input and a later frame
C15_Witness ==
    /\ game_state.win
    /\ frames = MaxFrames
    /\ keys_pressed # {}
    /\ screen.banner = "YOU WIN!"

\* C17: render changes nothing of the engine: what it returns as the engine
\* is the engine it was called on, and a frame leaves the engine as update
\* left it.
C17_RenderIsPure ==
    [][(game_engine # "none" => render(Engine).engine = Engine)
       /\ (FrameStep => Engine' = update(Engine))]_vars

C17_Witness ==
    /\ frames >= 2
    /\ Len(screen.drawn) >= 3
    /\ screen.score > 0
    /\ screen.score = game_state.score
    /\ game_state.time = frames

\* a description that lacks required content: no entities, no level, or a
\* game type the engine does not know
Malformed(gd) ==
    \/ gd.entities = <<>>
    \/ gd.levels = <<>>
    \/ gd.gameType \notin {"platformer", "racing", "flappy", "shooter", "tetris"}

\* C18: for a malformed description the initialization fails and leaves no
\* engine that accepts input, frame or reset requests, and the game is not
\* running.
C18_MalformedNotRunning ==
    Malformed(game_data) => (game_engine = "none" /\ ~game_running)

\* C19: handle_input, update and reset_game are applied only to an engine
\* whose initialization has completed.
C19_OnlyAfterInitialize ==
    [][(HandleInput \/ GetGameFrame \/ ResetGame) => game_engine = "initialized"]_vars

(***************************************************************************)
(* A fall: the frames streamed for a game of one player with nothing       *)
(* beneath it and no input (main.py 505-546: the stream loop sends a frame *)
(* after another for as long as the engine exists).                        *)
(***************************************************************************)
MaxFallFrames == 45

FallHeights == {590, 650, 700, 750}

FallDescription(y) == Game("platformer", <<HeroAt(0, y)>>, <<EmptyLevel>>)

InitFall ==
    /\ game_data \in {FallDescription(y) : y \in FallHeights}
    /\ PipelineReturned

StreamFrame ==
    /\ frames < MaxFallFrames
    /\ Frame

NextFall == InitializeGame \/ StreamFrame

SpecFall == InitFall /\ [][NextFall]_vars /\ WF_vars(StreamFrame)

\* the player of FallDescription(590) is falling
Falling ==
    /\ game_engine = "initialized"
    /\ game_data = FallDescription(590)

FellOff == player # 0 /\ all_objects[player].y > Px(GAME_HEIGHT + 200)

\* C16: the player that starts at (0, 590) with nothing beneath it gets,
\* after finitely many updates, beyond y = 800 (the viewport height + 200);
\* game_over is true from the end of the first update that leaves it
\* beyond 800, and not before.
C16_FallLoses ==
    /\ [](Falling => (game_state.game_over <=> FellOff))
    /\ Falling ~> (FellOff /\ game_state.game_over)

\* the first update that leaves the player beyond 800 is the 40th
C16_Witness ==
    /\ Falling
    /\ frames = 40
    /\ FellOff
    /\ game_state.game_over
    /\ all_objects[player].y - body.vy <= Px(GAME_HEIGHT + 200)
    /\ all_objects[player].health = 100

(***************************************************************************)
(* A frame that fails: the requests of main.py on a game one of whose      *)
(* collectibles has "points": null.                                        *)
(***************************************************************************)
NullCoin == [x |-> 110, y |-> 410, points |-> None]

NullPointDescriptions ==
    { Game("platformer", <<HeroAt(x, 400)>>,
           <<[platforms |-> <<Ground>>, collectibles |-> <<NearCoin, NullCoin>>]>>) :
          x \in {100, 140} }

InitNullPoints ==
    /\ game_data \in NullPointDescriptions
    /\ PipelineReturned

NextNullPoints == InitializeGame \/ HandleInput \/ GetGameFrame \/ ResetGame

SpecNullPoints == InitNullPoints /\ [][NextNullPoints]_vars

\* C20: a frame whose update raises leaves the game state and the objects
\* (score, health, time, flags, collected and active flags, positions) as
\* they were before the call.
C20_FailedFrameIsAtomic ==
    [][(FrameStep /\ Raised(update(Engine))) =>
          /\ game_state' = game_state
          /\ all_objects' = all_objects
          /\ body' = body]_vars

(***************************************************************************)
(* The asset pipeline on a cache directory whose reads and writes can      *)
(* fail: the construction of the AssetManager (__init__, load_cache) and   *)
(* one invocation of generate_game_assets.                                 *)
(***************************************************************************)
FaultyDiskDescriptions ==
    { Game("platformer", <<HeroAt(100, 400), Coin>>, <<PlatformLevel>>),
      Game("platformer", <<Coin, Enemy1>>, <<>>) }

InitFaultyDisk ==
    /\ game_data \in FaultyDiskDescriptions
    /\ asset_cache = EmptyMap
    /\ \E indexed \in SUBSET CandidateKeys(game_data) :
         /\ disk_index = [k \in indexed |-> CachedPath(k)]
         /\ files = {CachedPath(k) : k \in indexed}
    /\ dalle_request_count = 0
    /\ assets = EmptyMap
    /\ priority_requests = <<>>
    /\ am_idx = 1
    /\ am_pc = "constructing"
    /\ requests_sent = <<>>
    /\ am_log = [event |-> "none", name |-> "", detail |-> ""]
    /\ disk_faulty = TRUE
    /\ NoEngine
    /\ LoopIdle

\* lines 20-25: json.load of asset_cache.json is outside any try; when the
\* file cannot be read or decoded __init__ raises and no AssetManager exists
LoadCache ==
    /\ am_pc = "constructing"
    /\ \E readable \in BOOLEAN :
         IF readable
         THEN /\ asset_cache' = disk_index
              /\ am_pc' = "idle"
         ELSE /\ asset_cache' = asset_cache
              /\ am_pc' = "load_failed"
    /\ UNCHANGED <<disk_index, files, dalle_request_count, game_data, assets,
                   priority_requests, am_idx, requests_sent, am_log, disk_faulty>>
    /\ UNCHANGED eng_vars
    /\ UNCHANGED loop_vars

NextFaultyDisk == LoadCache \/ StartGeneration \/ GenerateAsset \/ FallbackAndReturn

SpecFaultyDisk == InitFaultyDisk /\ [][NextFaultyDisk]_vars

PersistFailures == {"artifact_write_error", "index_write_error"}

\* C21: a failure of the cache store never ends the pipeline (neither the
\* load of the index nor a write makes the construction or
\* generate_game_assets raise), the mapping returned is complete, and a
\* candidate whose image was generated but could not be persisted is bound
\* in the mapping.
C21_StoreFailuresContained ==
    /\ am_pc \notin {"load_failed", "raised"}
    /\ Returned => \A n \in EntityNames : n \in DOMAIN assets
    /\ (am_pc = "generate" /\ am_log.detail \in PersistFailures) =>
           am_log.name \in DOMAIN assets

\* the parts of C21, one by one
C21_LoadNeverRaises == am_pc # "load_failed"
C21_FallbackNeverRaises == am_pc # "raised"
C21_UnpersistedStillBound ==
    (am_pc = "generate" /\ am_log.detail \in PersistFailures) =>
        am_log.name \in DOMAIN assets

(***************************************************************************)
(* One session on the event loop: the initialize request (main.py 80-97,   *)
(* from the call of generate_game_assets on), then the WebSocket stream    *)
(* (505-546) and HTTP requests for input, frame and reset.  A coroutine    *)
(* keeps the loop until it suspends: the handlers of the requests never    *)
(* suspend (requests.post blocks, _load_assets awaits nothing), the stream *)
(* suspends in send_json (533) and asyncio.sleep (540).  An operation of   *)
(* the engine is in progress from the step that enters it to the step that *)
(* applies it.                                                             *)
(***************************************************************************)
MaxLoopFrames == 3

LoopDescriptions ==
    { Game("platformer", <<HeroAt(100, 400)>>, <<EmptyLevel>>),
      Game("puzzle", <<HeroAt(100, 400)>>, <<EmptyLevel>>) }

\* A faulty dispatch: a handler starts whatever the loop is running, as a
\* handler run by a pool of threads would.
StartsAnytime == TRUE

\* the loop starts or resumes a coroutine only when it is running no other
LoopFree == loop_task = "none"

EngineOps == {"initialize", "input", "update", "render", "reset"}
InOp(task) == task_pc[task] \in EngineOps

InitLoop ==
    /\ game_data \in LoopDescriptions
    /\ asset_cache = EmptyMap
    /\ disk_index = EmptyMap
    /\ files = {}
    /\ dalle_request_count = 0
    /\ assets = EmptyMap
    /\ priority_requests = <<>>
    /\ am_idx = 1
    /\ am_pc = "idle"
    /\ requests_sent = <<>>
    /\ am_log = [event |-> "none", name |-> "", detail |-> ""]
    /\ disk_faulty = FALSE
    /\ NoEngine
    /\ loop_task = "request"
    /\ task_pc = [stream |-> "closed", request |-> "initialize"]

\* main.py 92-97, after generate_game_assets returned at 89: the engine is
\* created and initialized, and the handler returns (or answers 500)
RequestInitialize ==
    /\ loop_task = "request"
    /\ task_pc["request"] = "initialize"
    /\ am_pc = "returned"
    /\ LET r == initialize_game(Constructed, game_data, assets, files)
       IN  /\ EngineBecomes(r.engine)
           /\ game_engine' = IF r.ok THEN "initialized" ELSE "created"
           /\ game_running' = (game_running \/ r.ok)
    /\ loop_task' = "none"
    /\ task_pc' = [task_pc EXCEPT !["request"] = "idle"]
    /\ UNCHANGED <<screen, frames>>
    /\ UNCHANGED am_vars

\* lines 118, 166, 200, 236: the handler of a request for input, a frame or
\* a reset starts, and passes 'if not game_engine'
RequestStarts ==
    /\ LoopFree
    /\ task_pc["request"] = "idle"
    /\ game_engine # "none"
    /\ \E op \in {"input", "update", "reset"} :
         /\ op = "update" => frames < MaxLoopFrames
         /\ task_pc' = [task_pc EXCEPT !["request"] = op]
    /\ loop_task' = "request"
    /\ UNCHANGED eng_vars
    /\ UNCHANGED am_vars

\* lines 139-141
RequestInput ==
    /\ loop_task = "request"
    /\ task_pc["request"] = "input"
    /\ \E keys \in KeySets : EngineBecomes(handle_input(Engine, keys))
    /\ loop_task' = "none"
    /\ task_pc' = [task_pc EXCEPT !["request"] = "idle"]
    /\ UNCHANGED <<game_engine, game_running, screen, frames>>
    /\ UNCHANGED am_vars

\* lines 171, 205: game_engine.update(1.0 / FPS); an exception ends the
\* request with 500
RequestUpdate ==
    /\ loop_task = "request"
    /\ task_pc["request"] = "update"
    /\ \E updated \in {update(Engine)} :
         /\ EngineBecomes(updated)
         /\ IF Raised(updated)
            THEN /\ loop_task' = "none"
                 /\ task_pc' = [task_pc EXCEPT !["request"] = "idle"]
            ELSE /\ loop_task' = loop_task
                 /\ task_pc' = [task_pc EXCEPT !["request"] = "render"]
    /\ frames' = frames + 1
    /\ UNCHANGED <<game_engine, game_running, screen>>
    /\ UNCHANGED am_vars

\* lines 174-190, 208-226: game_engine.render(), and the response
RequestRender ==
    /\ loop_task = "request"
    /\ task_pc["request"] = "render"
    /\ \E rendered \in {render(Engine)} :
         /\ EngineBecomes(rendered.engine)
         /\ screen' = rendered.screen
    /\ loop_task' = "none"
    /\ task_pc' = [task_pc EXCEPT !["request"] = "idle"]
    /\ UNCHANGED <<game_engine, game_running, frames>>
    /\ UNCHANGED am_vars

\* lines 239-240
RequestReset ==
    /\ loop_task = "request"
    /\ task_pc["request"] = "reset"
    /\ EngineBecomes(reset_game(Engine))
    /\ loop_task' = "none"
    /\ task_pc' = [task_pc EXCEPT !["request"] = "idle"]
    /\ UNCHANGED <<game_engine, game_running, screen, frames>>
    /\ UNCHANGED am_vars

\* lines 508-513: the socket is accepted; without an engine the stream ends
StreamOpens ==
    /\ LoopFree
    /\ task_pc["stream"] = "closed"
    /\ game_engine # "none"
    /\ task_pc' = [task_pc EXCEPT !["stream"] = "suspended"]
    /\ UNCHANGED loop_task
    /\ UNCHANGED eng_vars
    /\ UNCHANGED am_vars

\* line 516: the stream is resumed and tests 'while game_running'
StreamResumes ==
    /\ LoopFree
    /\ task_pc["stream"] = "suspended"
    /\ frames < MaxLoopFrames
    /\ IF game_running
       THEN /\ loop_task' = "stream"
            /\ task_pc' = [task_pc EXCEPT !["stream"] = "update"]
       ELSE /\ loop_task' = loop_task
            /\ task_pc' = [task_pc EXCEPT !["stream"] = "closed"]
    /\ UNCHANGED eng_vars
    /\ UNCHANGED am_vars

\* line 518; an exception is caught at 544 and ends the stream
StreamUpdate ==
    /\ loop_task = "stream"
    /\ task_pc["stream"] = "update"
    /\ \E updated \in {update(Engine)} :
         /\ EngineBecomes(updated)
         /\ IF Raised(updated)
            THEN /\ loop_task' = "none"
                 /\ task_pc' = [task_pc EXCEPT !["stream"] = "closed"]
            ELSE /\ loop_task' = loop_task
                 /\ task_pc' = [task_pc EXCEPT !["stream"] = "render"]
    /\ frames' = frames + 1
    /\ UNCHANGED <<game_engine, game_running, screen>>
    /\ UNCHANGED am_vars

\* lines 521-540: render, then the stream suspends in send_json and sleep
StreamRender ==
    /\ loop_task = "stream"
    /\ task_pc["stream"] = "render"
    /\ \E rendered \in {render(Engine)} :
         /\ EngineBecomes(rendered.engine)
         /\ screen' = rendered.screen
    /\ loop_task' = "none"
    /\ task_pc' = [task_pc EXCEPT !["stream"] = "suspended"]
    /\ UNCHANGED <<game_engine, game_running, frames>>
    /\ UNCHANGED am_vars

NextLoop ==
    \/ StartGeneration \/ GenerateAsset \/ FallbackAndReturn
    \/ RequestInitialize \/ RequestStarts \/ RequestInput \/ RequestUpdate
    \/ RequestRender \/ RequestReset
    \/ StreamOpens \/ StreamResumes \/ StreamUpdate \/ StreamRender

SpecLoop == InitLoop /\ [][NextLoop]_vars

\* what _load_assets loads of the mapping
MappingLoaded ==
    /\ eng_assets = _load_assets(Constructed, assets, files).eng_assets
    /\ background = _load_assets(Constructed, assets, files).background

\* C22: whenever an engine exists, generate_game_assets has returned and
\* its mapping binds every entity of the description; and once an update
\* was applied to the engine, the mapping has been loaded into it.
C22_AssetsBeforeSimulation ==
    /\ game_engine # "none" =>
           /\ Returned
           /\ \A n \in EntityNames : n \in DOMAIN assets
    /\ frames > 0 => MappingLoaded

\* the first part of C22 alone: the mapping is complete before an engine
\* exists
C22_MappingBeforeEngine ==
    game_engine # "none" =>
        /\ Returned
        /\ \A n \in EntityNames : n \in DOMAIN assets

\* C23: at most one coroutine is inside an operation of the engine, and it
\* is the one the event loop is running; a step that changes the engine is
\* a step of that coroutine.
C23_Serialized ==
    /\ ~(InOp("stream") /\ InOp("request"))
    /\ \A task \in {"stream", "request"} : InOp(task) <=> loop_task = task

\* the stream has sent a frame and is suspended while the handler of a
\* request is inside update
C23_Witness ==
    /\ task_pc["stream"] = "suspended"
    /\ task_pc["request"] = "update"
    /\ loop_task = "request"
    /\ frames >= 1
    /\ screen # Blank

(***************************************************************************)
(* Properties of input and of the kinematic update (SpecEngine).           *)
(***************************************************************************)
HoldsLeft(keys) == "left" \in keys \/ "a" \in keys
HoldsRight(keys) == "right" \in keys \/ "d" \in keys
HoldsJump(keys) == "up" \in keys \/ "w" \in keys \/ "space" \in keys

PlatformerWithPlayer == game_type = "platformer" /\ player # 0

\* a step of handle_input that changed the keys held or the player's velocity
InputStep ==
    /\ game_engine' = game_engine
    /\ frames' = frames
    /\ PlatformerWithPlayer
    /\ player' = player
    /\ \/ keys_pressed' # keys_pressed
       \/ all_objects'[player].velocity_x # all_objects[player].velocity_x
       \/ all_objects'[player].velocity_y # all_objects[player].velocity_y

\* C24: in a platformer with a player, the player's horizontal velocity is
\* the one the keys last passed to handle_input ask for (-MOVE_SPEED with
\* left held, +MOVE_SPEED with right and not left held, 0 with neither);
\* a call with up or space held sets the vertical velocity to JUMP_FORCE
\* and clears on_ground when the player was on the ground at the call, and
\* any other call leaves the vertical velocity and on_ground as they were.
C24_InputSetsVelocity ==
    [][/\ PlatformerWithPlayer' =>
             all_objects'[player'].velocity_x =
                 IF HoldsLeft(keys_pressed') THEN -Vel(MOVE_SPEED)
                 ELSE IF HoldsRight(keys_pressed') THEN Vel(MOVE_SPEED)
                 ELSE 0
       /\ InputStep =>
             LET before == all_objects[player]
                 after == all_objects'[player]
             IN  IF HoldsJump(keys_pressed') /\ before.on_ground
                 THEN /\ after.velocity_y = Vel(JUMP_FORCE)
                      /\ ~after.on_ground
                 ELSE /\ after.velocity_y = before.velocity_y
                      /\ after.on_ground = before.on_ground]_vars

\* the player stood on a platform, up was held with right, and the jump was
\* taken
C24_Witness ==
    /\ PlatformerWithPlayer
    /\ keys_pressed = {"right", "up"}
    /\ frames >= 1
    /\ all_objects[player].velocity_x = Vel(MOVE_SPEED)
    /\ all_objects[player].velocity_y = Vel(JUMP_FORCE)
    /\ ~all_objects[player].on_ground
    /\ body.vy = 0

\* up was held in mid-air and no jump was taken
C24_WitnessMidAir ==
    /\ PlatformerWithPlayer
    /\ keys_pressed = {"space"}
    /\ frames >= 1
    /\ Abs(body.vy) >= Vel(10)
    /\ all_objects[player].velocity_y = 0

\* C25: in one update every active object is moved once, by its velocity
\* times dt (the player from the position its body gave it), and an active
\* enemy by speed * direction * dt with the direction its patrol logic
\* left it.
C25_IntegratedOnce ==
    [][FrameStep =>
          \A i \in DOMAIN all_objects :
              all_objects[i].active =>
                  LET before == all_objects[i]
                      after == all_objects'[i]
                  IN  IF i = player /\ body.exists
                      THEN /\ after.x = SyncPlayer(before, body').x
                                            + TimesDt(before.velocity_x)
                           /\ after.y = SyncPlayer(before, body').y
                                            + TimesDt(before.velocity_y)
                      ELSE IF before.cls = "Enemy"
                      THEN /\ after.x = before.x
                                            + TimesDt(before.speed * after.direction)
                           /\ after.y = before.y + TimesDt(before.velocity_y)
                      ELSE /\ after.x = before.x + TimesDt(before.velocity_x)
                           /\ after.y = before.y + TimesDt(before.velocity_y)]_vars

\* C25 for the objects that are no enemies
C25_OthersIntegratedOnce ==
    [][FrameStep =>
          \A i \in DOMAIN all_objects :
              (all_objects[i].active /\ all_objects[i].cls # "Enemy") =>
                  LET before == all_objects[i]
                      after == all_objects'[i]
                  IN  IF i = player /\ body.exists
                      THEN /\ after.x = SyncPlayer(before, body').x
                                            + TimesDt(before.velocity_x)
                           /\ after.y = SyncPlayer(before, body').y
                                            + TimesDt(before.velocity_y)
                      ELSE /\ after.x = before.x + TimesDt(before.velocity_x)
                           /\ after.y = before.y + TimesDt(before.velocity_y)]_vars

(***************************************************************************)
(* A patrol: the stream of frames of a game whose only object is an enemy, *)
(* long enough for the enemy to reach the far end of its patrol and to     *)
(* come back.                                                              *)
(***************************************************************************)
MaxPatrolFrames == 130

PatrolStarts == {0, 100}

PatrolDescription(x) ==
    Game("platformer",
         <<[name |-> "enemy_1", type |-> "enemy", color |-> "#00FF00", x |-> x, y |-> 400]>>,
         <<EmptyLevel>>)

InitPatrol ==
    /\ game_data \in {PatrolDescription(x) : x \in PatrolStarts}
    /\ PipelineReturned

PatrolFrame ==
    /\ frames < MaxPatrolFrames
    /\ Frame

NextPatrol == InitializeGame \/ PatrolFrame

SpecPatrol == InitPatrol /\ [][NextPatrol]_vars

\* the direction the patrol rule gives an enemy updated where it is
PatrolRule(obj) ==
    IF obj.x >= obj.start_x + obj.patrol_range THEN -1
    ELSE IF obj.x <= obj.start_x THEN 1
    ELSE obj.direction

\* C26: an update of an enemy, wherever a patrol brings it, leaves its
\* direction -1 at x >= start_x + patrol_range, +1 at x <= start_x and as it
\* was in between, and moves it by speed * dt in that direction; the x of
\* an enemy stays within [start_x - speed*dt, start_x + patrol_range +
\* speed*dt].
C26_PatrolStaysInRange ==
    \A i \in Range(enemies) :
        LET obj == all_objects[i]
        IN  /\ Enemy_update(obj).direction = PatrolRule(obj)
            /\ Enemy_update(obj).x = obj.x + TimesDt(obj.speed * PatrolRule(obj))
            /\ obj.direction \in {-1, 1}
            /\ obj.x >= obj.start_x - TimesDt(obj.speed)
            /\ obj.x <= obj.start_x + obj.patrol_range + TimesDt(obj.speed)

\* the enemy has been to the far end of its patrol and is back at its spawn
C26_Witness ==
    /\ enemies # <<>>
    /\ frames = 120
    /\ all_objects[enemies[1]].x = all_objects[enemies[1]].start_x
    /\ all_objects[enemies[1]].direction = -1

\* the enemy is at the far end, about to turn
C26_WitnessFarEnd ==
    /\ enemies # <<>>
    /\ all_objects[enemies[1]].x =
           all_objects[enemies[1]].start_x + all_objects[enemies[1]].patrol_range
    /\ all_objects[enemies[1]].direction = 1

(***************************************************************************)
(* The holders and the names of the objects: games whose description       *)
(* declares one player and one enemy, two players, or an entity with the   *)
(* name the engine gives its first platform.                               *)
(***************************************************************************)
Hero2 == [name |-> "hero2", type |-> "player", color |-> "#0000FF", x |-> 300, y |-> 400]

Sentry == [name |-> "platform_0", type |-> "enemy", color |-> "#00FF00", x |-> 600, y |-> 100]

HolderDescriptions ==
    { Game("platformer", <<HeroAt(100, 400), Enemy1>>,
           <<[platforms |-> <<Ground>>, collectibles |-> <<NearCoin>>]>>),
      Game("platformer", <<HeroAt(100, 400), Hero2>>,
           <<[platforms |-> <<Ground>>, collectibles |-> <<NearCoin>>]>>),
      Game("platformer", <<HeroAt(100, 400), Sentry>>,
           <<[platforms |-> <<Ground>>, collectibles |-> <<NearCoin>>]>>) }

InitHolders ==
    /\ game_data \in HolderDescriptions
    /\ PipelineReturned

NextHolders == InitializeGame \/ HandleInput \/ GetGameFrame \/ ResetGame

SpecHolders == InitHolders /\ [][NextHolders]_vars

\* the number of references the typed holders have to the object at position i
HolderCount(i) ==
    (IF player = i THEN 1 ELSE 0)
    + Cardinality({k \in DOMAIN enemies : enemies[k] = i})
    + Cardinality({k \in DOMAIN collectibles : collectibles[k] = i})
    + Cardinality({k \in DOMAIN platforms : platforms[k] = i})

\* C27: once the engine is initialized, every object of all_objects is
\* referenced by exactly one typed holder, exactly once, and every
\* reference of a typed holder is to an object of all_objects.
C27_ExactlyOneHolder ==
    game_engine = "initialized" =>
        /\ \A i \in DOMAIN all_objects : HolderCount(i) = 1
        /\ player \in {0} \cup DOMAIN all_objects
        /\ Range(enemies) \cup Range(collectibles) \cup Range(platforms)
               \subseteq DOMAIN all_objects

\* C27 without the first part: no holder refers to an object twice or to an
\* object outside all_objects
C27_HoldersWithinAllObjects ==
    game_engine = "initialized" =>
        /\ \A i \in DOMAIN all_objects : HolderCount(i) <= 1
        /\ player \in {0} \cup DOMAIN all_objects
        /\ Range(enemies) \cup Range(collectibles) \cup Range(platforms)
               \subseteq DOMAIN all_objects

\* C28: once the engine is initialized from a description whose entity
\* names are pairwise distinct, the names of the objects of all_objects are
\* pairwise distinct.
C28_NamesDistinct ==
    (game_engine = "initialized"
     /\ Cardinality(EntityNames) = Len(game_data.entities)) =>
        \A i, j \in DOMAIN all_objects :
            all_objects[i].name = all_objects[j].name => i = j

\* C28 for the objects of the level alone
C28_LevelNamesDistinct ==
    game_engine = "initialized" =>
        \A i, j \in Range(platforms) \cup Range(collectibles) :
            all_objects[i].name = all_objects[j].name => i = j

(***************************************************************************)
(* Properties of the cache index and of the cache key (SpecAssets).        *)
(***************************************************************************)
\* C29: a successful generation leaves the index on disk equal to the index
\* in memory, with the key of the candidate in it; and no step of
\* generate_game_assets removes a key from the index, in memory or on
\* disk, or changes the entry of a key.
C29_IndexPersistedAndGrows ==
    [][/\ Resolved("generated") =>
             /\ disk_index' = asset_cache'
             /\ KeyOf(priority_requests[am_idx]) \in DOMAIN disk_index'
       /\ DOMAIN asset_cache \subseteq DOMAIN asset_cache'
       /\ DOMAIN disk_index \subseteq DOMAIN disk_index'
       /\ \A k \in DOMAIN asset_cache : asset_cache'[k] = asset_cache[k]]_vars

\* one image was generated in this invocation, and the index on disk holds
\* its key and a key it held before
C29_Witness ==
    /\ am_pc = "generate"
    /\ am_log.event = "generated"
    /\ Len(requests_sent) = 1
    /\ disk_index = asset_cache
    /\ Cardinality(DOMAIN disk_index) >= 2
    /\ KeyOf(priority_requests[am_idx - 1]) \in DOMAIN disk_index

(***************************************************************************)
(* The cache key as a function of the request: _generate_dalle_asset       *)
(* applied, one after the other, to two requests drawn from a set of       *)
(* prompts, asset types and target sizes, on an empty cache.               *)
(***************************************************************************)
KeyPrompts ==
    { _create_enemy_prompt(Enemy1, Game("platformer", <<>>, <<>>)),
      _create_collectible_prompt(NearCoin, Game("platformer", <<>>, <<>>)) }

KeyTypes == {"character", "item"}

KeySizes == {<<SPRITE_SIZE, SPRITE_SIZE>>, <<24, 24>>}

KeyRequests(name) ==
    {[name |-> name, type |-> t, prompt |-> p, size |-> z] :
         t \in KeyTypes, p \in KeyPrompts, z \in KeySizes}

InitKeys ==
    /\ game_data = Game("platformer", <<>>, <<>>)
    /\ asset_cache = EmptyMap
    /\ disk_index = EmptyMap
    /\ files = {}
    /\ dalle_request_count = 0
    /\ assets = EmptyMap
    /\ \E first \in KeyRequests("first"), second \in KeyRequests("second") :
         priority_requests = <<first, second>>
    /\ am_idx = 1
    /\ am_pc = "generate"
    /\ requests_sent = <<>>
    /\ am_log = [event |-> "none", name |-> "", detail |-> ""]
    /\ disk_faulty = FALSE
    /\ NoEngine
    /\ LoopIdle

NextKeys == GenerateAsset \/ FallbackAndReturn

SpecKeys == InitKeys /\ [][NextKeys]_vars

SameRequest(a, b) == a.prompt = b.prompt /\ a.type = b.type /\ a.size = b.size

C30_KeyOfPromptType ==
    \A i, j \in 1..(am_idx - 1) :
        (KeyOf(priority_requests[i]) = KeyOf(priority_requests[j]))
            <=> /\ priority_requests[i].prompt = priority_requests[j].prompt
                /\ priority_requests[i].type = priority_requests[j].type

\* the second request differs from the first in its target size alone and
\* was answered from the cache with the image of the first
C30_SizeIgnored ==
    /\ am_idx = 3
    /\ priority_requests[1].size # priority_requests[2].size
    /\ am_log.event = "cached"
    /\ assets["second"] = assets["first"]
(***************************************************************************)
(* Won and lost                                                            *)
(***************************************************************************)
\* the engine holds both terminal flags
WonAndLost == game_state.game_over /\ game_state.win

\* an update of a lost game leaves the score, the health and win alone
FrozenWhenLost ==
    (FrameStep /\ game_state.game_over) =>
        /\ game_state'.score = game_state.score
        /\ game_state'.win = game_state.win
        /\ player # 0 => all_objects'[player'].health = all_objects[player].health

\* A lost game goes on: the hero falls off the world where an enemy and
\* a collectible are; or the hero stands on the ground by a collectible.
LowEnemy == [Enemy1 EXCEPT !.x = 0, !.y = GAME_HEIGHT + 200]
LowCoin == [x |-> 0, y |-> GAME_HEIGHT + 200, points |-> 10]

TerminalDescriptions ==
    { Game("platformer", <<HeroAt(0, GAME_HEIGHT + 200), LowEnemy>>,
           <<[platforms |-> <<>>, collectibles |-> <<LowCoin>>]>>),
      Game("platformer", <<HeroAt(100, 400)>>,
           <<[platforms |-> <<Ground>>, collectibles |-> <<NearCoin>>]>>) }

InitTerminal ==
    /\ game_data \in TerminalDescriptions
    /\ PipelineReturned

NextTerminal == InitializeGame \/ HandleInput \/ GetGameFrame \/ ResetGame

SpecTerminal == InitTerminal /\ [][NextTerminal]_vars

C31_NeverBoth == ~WonAndLost

C31_LostIsFrozen == [][FrozenWhenLost]_vars

\* C31: game_over and win are never both true, and once game_over is true
\* no update before a reset changes the score, the health or win.
C31_WonOrLostNotBoth == [](~WonAndLost) /\ [][FrozenWhenLost]_vars

(***************************************************************************)
(* Health and the lost flag                                                *)
(***************************************************************************)
\* C32: in every state in which a player exists, health at or below zero
\* implies game_over, whatever requests (initialize, input, frame, reset)
\* led to the state.
C32_NoHealthIsLost ==
    (player # 0 /\ all_objects[player].health <= 0) => game_state.game_over

\* the enemies have taken all the health; the lost game was drawn, and an
\* input came after
C32_Witness ==
    /\ player # 0
    /\ all_objects[player].health <= 0
    /\ game_state.game_over
    /\ screen.banner = "GAME OVER"
    /\ keys_pressed # {}

\* a reset after the lost game was drawn: health and flag restored together
C32_WitnessReset ==
    /\ player # 0
    /\ all_objects[player].health = 100
    /\ ~game_state.game_over
    /\ screen.banner = "GAME OVER"
    /\ screen.health = ToString(-20)

(***************************************************************************)
(* The two flags of a collectible                                          *)
(***************************************************************************)
\* C33: for every collectible, in every state, collected is true if and
\* only if active is false.
C33_CollectedIffInactive ==
    \A i \in Range(collectibles) :
        all_objects[i].collected <=> ~all_objects[i].active

\* one collectible taken and one not, after a frame and an input
C33_Witness ==
    /\ frames >= 1
    /\ keys_pressed # {}
    /\ \E i \in Range(collectibles) :
           all_objects[i].collected /\ ~all_objects[i].active
    /\ \E i \in Range(collectibles) :
           ~all_objects[i].collected /\ all_objects[i].active

\* a reset after a frame that had collected
C33_WitnessReset ==
    /\ screen.score > 0
    /\ game_state.score = 0
    /\ collectibles # <<>>
    /\ \A i \in Range(collectibles) :
           ~all_objects[i].collected /\ all_objects[i].active

(***************************************************************************)
(* The generation loop and its budget check (SpecAssets)                   *)
(***************************************************************************)
\* C34: every iteration of the generation loop attempts the candidate at
\* its position and goes on to the next one, with the counter at most the
\* number of candidates attempted: the budget check never fires, no
\* candidate is skipped by it and none is attempted twice; the loop is left
\* only after the last candidate.
C34_EachCandidateOnce ==
    [][/\ (am_pc = "generate" /\ am_pc' = "generate") =>
              /\ am_idx' = am_idx + 1
              /\ am_log'.event # "limit_reached"
              /\ am_log'.name = priority_requests[am_idx].name
              /\ dalle_request_count < K
              /\ dalle_request_count' <= am_idx
       /\ (am_pc = "generate" /\ am_pc' # "generate") =>
              am_idx = Len(priority_requests) + 1]_vars

\* an invocation over K candidates has returned, every candidate posted
\* once, the first of them failed and later ones generated
C34_Witness ==
    /\ Returned
    /\ Len(priority_requests) = K
    /\ Len(requests_sent) = K
    /\ \A i \in 1..K : requests_sent[i].name = priority_requests[i].name
    /\ ~requests_sent[1].ok
    /\ requests_sent[K].ok
    /\ dalle_request_count < K

(***************************************************************************)
(* The player and its physics body                                         *)
(***************************************************************************)
\* the player's position is the one its body gives it, moved by one step of
\* the player's velocity
FollowsBody(p, b) ==
    /\ b.exists
    /\ p.x = b.x - p.width \div 2 + TimesDt(p.velocity_x)
    /\ p.y = b.y - p.height \div 2 + TimesDt(p.velocity_y)

\* C35: at the end of every update the player's position is its body's
\* position minus half the player's width and height plus its velocity
\* times dt, and handle_input leaves the body as it was.
C35_PlayerFollowsBody ==
    [][/\ (FrameStep /\ player' # 0) => FollowsBody(all_objects'[player'], body')
       /\ HandleInput => body' = body]_vars

\* C35 for the engines whose initialize_game has returned
C35_InitializedPlayerFollowsBody ==
    [][/\ (FrameStep /\ player' # 0 /\ game_engine = "initialized") =>
              FollowsBody(all_objects'[player'], body')
       /\ HandleInput => body' = body]_vars

\* right was held over every frame, and the player is one step of
\* MOVE_SPEED from where its body, which has not moved sideways, puts it
C35_Witness ==
    /\ frames = MaxFrames
    /\ PlatformerWithPlayer
    /\ game_engine = "initialized"
    /\ all_objects[player].velocity_x = Vel(MOVE_SPEED)
    /\ body.x = Px(100) + all_objects[player].width \div 2
    /\ all_objects[player].x = Px(100) + TimesDt(Vel(MOVE_SPEED))

(***************************************************************************)
(* Entity creation: which descriptor an object has its colour from         *)
(***************************************************************************)
\* lines 197, 203: the descriptors that create an object
CreatesObject(entity_data) ==
    \/ Get(entity_data, "type", "object") = "player"
    \/ HasEnemy(Get(entity_data, "type", "object"))
    \/ HasEnemy(Get(entity_data, "name", "unnamed"))

\* lines 211-216: the colour a descriptor asks for
DescriptorColour(entity_data) ==
    LET color_chars == StrChars(Get(entity_data, "color", "#FFFFFF"))
    IN  IF StartsWithHash(color_chars)
        THEN HexTriple(Tail(color_chars)) ELSE <<255, 255, 255>>

CreatingDescriptors == SelectSeq(game_data.entities, CreatesObject)

\* C36: the objects created from the entities are, in order, those of the
\* descriptors of type player or enemy (by type or name), and each one
\* without a sprite has the colour of its own descriptor: a descriptor that
\* creates no object has changed none.
C36_ColourOfOwnDescriptor ==
    (game_engine # "none" /\ Len(all_objects) >= Len(CreatingDescriptors)) =>
        \A j \in 1..Len(CreatingDescriptors) :
            /\ all_objects[j].name = Get(CreatingDescriptors[j], "name", "unnamed")
            /\ ~all_objects[j].sprite =>
                   all_objects[j].color = DescriptorColour(CreatingDescriptors[j])

\* C36 for the games in which every descriptor creates an object
C36_ColourWhenAllCreate ==
    (/\ game_engine # "none" /\ Len(all_objects) >= Len(CreatingDescriptors)
     /\ CreatingDescriptors = game_data.entities) =>
        \A j \in 1..Len(CreatingDescriptors) :
            /\ all_objects[j].name = Get(CreatingDescriptors[j], "name", "unnamed")
            /\ ~all_objects[j].sprite =>
                   all_objects[j].color = DescriptorColour(CreatingDescriptors[j])

====
